---------------------------- MODULE Spec2Model ----------------------------
(***************************************************************************)
(* UnifiedPointerEvents (src/upe/upe.js, version 1.4.0): the listener      *)
(* registry and the per-listener gesture state machines, driven by the     *)
(* pointer-event channel (features.pointerEvents = true): pointerdown,     *)
(* pointermove, pointerup, pointercancel and pointerleave, and by the      *)
(* timers the handlers schedule with setTimeout.                           *)
(*                                                                         *)
(* Time is Date.now() in milliseconds.  A raw event and a timer that are   *)
(* due in the same millisecond run in either order; a timer runs in the    *)
(* millisecond it is due.                                                  *)
(***************************************************************************)
EXTENDS Integers, Sequences, FiniteSets, TLC

-----------------------------------------------------------------------------
(* Bounds of the model *)

\* Date.now() when the engine is constructed (any value beyond every delay).
T0 == 1000
\* The clock runs from T0 to T0 + MaxTime.
MaxTime == 500
\* The clock advances by at most Step at a time (and stops at every timer).
Step == 100
\* Raw events the input source delivers over a run.
MaxEvents == 5
\* Registrations created over a run of the single-listener universes.
MaxRegs == 1
\* Registrations created over a run of the registry universe.
MaxRegsReg == 2

-----------------------------------------------------------------------------
(* Values *)

\* JS null for a pointer id (pointer ids of the pointer channel are >= 1).
NoPointer == 0

\* JS null for a timer handle.
NoTimer == [lid |-> 0, kind |-> "none", due |-> 0, pid |-> 0]

Pointers == {1, 2}

Min(a, b) == IF a <= b THEN a ELSE b
Max(a, b) == IF a >= b THEN a ELSE b
Abs(a) == IF a < 0 THEN -a ELSE a

-----------------------------------------------------------------------------
(* Numbers of the wheel and pen rotation: JS Numbers (IEEE 754 binary64)   *)
(* below 1024 in magnitude, kept exactly as sign and magnitude in units of *)
(* 2^-54: hi is the whole part, mid and lo are the two 27-bit limbs of the *)
(* fraction.  A sum is formed exactly and then rounded to the nearest      *)
(* binary64 value, ties to even, as the + and - of the language do.        *)

\* 2^27, the size of a limb
Limb == 134217728

Num(neg, hi, mid, lo) == [neg |-> neg, hi |-> hi, mid |-> mid, lo |-> lo]

Whole(n) == Num(n < 0, Abs(n), 0, 0)

NumZero == Whole(0)

\* The binary64 value nearest to 0.3 (0x3FD3333333333333)
ThreeTenths == Num(FALSE, 0, 40265318, 53687091)

IsZero(x) == x.hi = 0 /\ x.mid = 0 /\ x.lo = 0

\* x < 0
IsNegative(x) == x.neg /\ ~IsZero(x)

Negate(x) == [x EXCEPT !.neg = ~x.neg /\ ~IsZero(x)]

\* |a| < |b|
MagLess(a, b) ==
  \/ a.hi < b.hi
  \/ a.hi = b.hi /\ a.mid < b.mid
  \/ a.hi = b.hi /\ a.mid = b.mid /\ a.lo < b.lo

\* a < b
NumLess(a, b) ==
  CASE IsNegative(a) /\ ~IsNegative(b) -> TRUE
    [] ~IsNegative(a) /\ IsNegative(b) -> FALSE
    [] IsNegative(a) /\ IsNegative(b) -> MagLess(b, a)
    [] OTHER -> MagLess(a, b)

\* |a| + |b|, exactly
MagAdd(a, b) ==
  LET lo == a.lo + b.lo
      mid == a.mid + b.mid + (lo \div Limb)
  IN [hi |-> a.hi + b.hi + (mid \div Limb), mid |-> mid % Limb,
      lo |-> lo % Limb]

\* |a| - |b| for |a| >= |b|, exactly
MagSub(a, b) ==
  LET lo == a.lo - b.lo
      bl == IF lo < 0 THEN 1 ELSE 0
      mid == a.mid - b.mid - bl
      bm == IF mid < 0 THEN 1 ELSE 0
  IN [hi |-> a.hi - b.hi - bm, mid |-> mid + bm * Limb,
      lo |-> lo + bl * Limb]

RECURSIVE Pow2(_)
Pow2(k) == IF k = 0 THEN 1 ELSE 2 * Pow2(k - 1)

\* The bits of the fraction a binary64 value of magnitude m has no room
\* for: 53 significant bits, the unit being 2^-54
RECURSIVE BitsOf(_)
BitsOf(n) == IF n = 0 THEN 0 ELSE 1 + BitsOf(n \div 2)

LostBits(m) ==
  IF m.hi > 0 THEN BitsOf(m.hi) + 1
  ELSE IF m.mid >= Limb \div 2 THEN 1 ELSE 0

\* Round to nearest, ties to even
RoundMag(m) ==
  LET k == LostBits(m)
      unit == Pow2(k)
      q == m.lo \div unit
      rest == m.lo % unit
      up == \/ 2 * rest > unit
            \/ 2 * rest = unit /\ q % 2 = 1
      lo == (q + (IF up THEN 1 ELSE 0)) * unit
      mid == m.mid + (lo \div Limb)
  IN IF k = 0 THEN m
     ELSE [hi |-> m.hi + (mid \div Limb), mid |-> mid % Limb,
           lo |-> lo % Limb]

Signed(neg, m) ==
  Num(neg /\ ~(m.hi = 0 /\ m.mid = 0 /\ m.lo = 0), m.hi, m.mid, m.lo)

\* a + b
NumAdd(a, b) ==
  IF a.neg = b.neg THEN Signed(a.neg, RoundMag(MagAdd(a, b)))
  ELSE IF MagLess(a, b) THEN Signed(b.neg, RoundMag(MagSub(b, a)))
  ELSE Signed(a.neg, RoundMag(MagSub(a, b)))

\* a - b
NumSub(a, b) == NumAdd(a, Negate(b))

\* a % 360: the remainder has the sign of a and is exact
NumMod360(a) == Signed(a.neg, [hi |-> a.hi % 360, mid |-> a.mid, lo |-> a.lo])

\* 0 <= a < 360
InCircle(a) == ~IsNegative(a) /\ NumLess(a, Whole(360))

-----------------------------------------------------------------------------
(* Numbers of the scale: exact fractions n/d, and the two values a         *)
(* division by zero gives, Infinity (x/0 for x > 0) and NaN (0/0)          *)

RECURSIVE Gcd(_, _)
Gcd(a, b) == IF b = 0 THEN a ELSE Gcd(b, a % b)

Rat(n, d) ==
  LET g == Gcd(Abs(n), d)
  IN [kind |-> "num", n |-> n \div g, d |-> d \div g]

NaN == [kind |-> "nan", n |-> 0, d |-> 0]
Infinity == [kind |-> "inf", n |-> 1, d |-> 0]

\* a / b for distances a >= 0 and b >= 0
RatDiv(a, b) ==
  IF b # 0 THEN Rat(a, b) ELSE IF a = 0 THEN NaN ELSE Infinity

\* a * b
RatMul(a, b) ==
  CASE a.kind = "nan" \/ b.kind = "nan" -> NaN
    [] a.kind = "inf" -> IF b.n = 0 THEN NaN ELSE Infinity
    [] b.kind = "inf" -> IF a.n = 0 THEN NaN ELSE Infinity
    [] OTHER -> Rat(a.n * b.n, a.d * b.d)

\* a < b (false when either is NaN)
RatLess(a, b) ==
  CASE a.kind = "nan" \/ b.kind = "nan" -> FALSE
    [] a.kind = "inf" -> FALSE
    [] b.kind = "inf" -> TRUE
    [] OTHER -> a.n * b.d < b.n * a.d

\* Math.min and Math.max: NaN when an argument is NaN
MathMin(a, b) ==
  IF a.kind = "nan" \/ b.kind = "nan" THEN NaN
  ELSE IF RatLess(b, a) THEN b ELSE a

MathMax(a, b) ==
  IF a.kind = "nan" \/ b.kind = "nan" THEN NaN
  ELSE IF RatLess(a, b) THEN b ELSE a

-----------------------------------------------------------------------------
\* this.defaults (the entries the modelled handlers read)
defaults ==
  [ longClickDelay   |-> 500,
    doubleClickDelay |-> 300,
    swipeThreshold   |-> 50,
    swipeTimeout     |-> 300,
    flingMinVelocity |-> 600,
    usePointerCapture |-> TRUE,
    rotateStepDeg    |-> Whole(5),
    pinchZoomStep    |-> Rat(1, 20),
    throttleMs       |-> 16 ]

\* A set of valid types that also admits "hover"
validEventTypesAndHover ==
  { "start", "move", "end", "cancel", "longclick", "doubleclick", "swipe",
    "fling", "dragstart", "drag", "dragend", "gotcapture", "lostcapture",
    "rotate", "pinchzoom", "hover" }

\* this._validEventTypes
validEventTypes ==
  { "start", "move", "end", "cancel", "longclick", "doubleclick", "swipe",
    "fling", "dragstart", "drag", "dragend", "gotcapture", "lostcapture",
    "rotate", "pinchzoom" }

\* this._eventMapping.pointer
PointerEventName(type) ==
  CASE type = "start"  -> "pointerdown"
    [] type = "move"   -> "pointermove"
    [] type = "end"    -> "pointerup"
    [] type = "cancel" -> "pointercancel"
    [] OTHER           -> type

\* An options object as the application passes it.  A numeric option of 0
\* stands for an absent one (both are falsy in `options.x || defaults.x`);
\* usePointerCapture is "unset", "true" or "false"; range.x / range.y are
\* <<min, max>> or <<>> when the axis is not configured.
NoOptions ==
  [ longClickDelay |-> 0, doubleClickDelay |-> 0, swipeThreshold |-> 0,
    swipeTimeout |-> 0, flingMinVelocity |-> 0, usePointerCapture |-> "unset",
    rangeX |-> <<>>, rangeY |-> <<>>, keepState |-> TRUE, throttle |-> 0,
    rotateStepDeg |-> NumZero, pinchZoomStep |-> Rat(0, 1),
    mouseOnly |-> FALSE, touchOnly |-> FALSE, penOnly |-> FALSE ]

-----------------------------------------------------------------------------
VARIABLES
  cfg,            \* the universe of a run: what the application and the
                  \* input source may do (fixed by Init)
  now,            \* Date.now()
  events,         \* raw events delivered so far
  listenerCounter,\* this.listenerCounter
  eventListeners, \* this.eventListeners: the Map, in insertion order, as a
                  \* sequence of [id, ref]; ref is the listenerInfo object
  objs,           \* the listenerInfo objects ever created (the heap): ref ->
                  \* [element, eventType, callback, options, nativeListeners,
                  \*  state]
  dom,            \* the native subscriptions on the elements, in the order of
                  \* element.addEventListener: [element, type, ref, handler]
  timers,         \* pending setTimeout callbacks, in scheduling order
  captured,       \* <<element, pointerId>> pairs with pointer capture set
  down,           \* pointer ids with a stream in progress (pressed)
  op,             \* the operation the last step performed
  out,            \* callback invocations of the last step, in order
  capLog          \* setPointerCapture/releasePointerCapture calls of the
                  \* last step, in order

vars == << cfg, now, events, listenerCounter, eventListeners, objs, dom,
           timers, captured, down, op, out, capLog >>


-----------------------------------------------------------------------------
(* The world a handler runs in.  A handler is a function from the world    *)
(* before it to the world after it; `now` and `cfg` are read directly.     *)

World == [ objs |-> objs, timers |-> timers, captured |-> captured,
           regs |-> eventListeners, dom |-> dom,
           out |-> <<>>, capLog |-> <<>> ]

\* this.features.pointerCapture
PointerCaptureSupported == cfg.pointerCapture

\* mergedOptions of _setupGestureEvents / _setupDragEvents
MergedOptions(o) ==
  [ longClickDelay   |-> IF o.longClickDelay # 0 THEN o.longClickDelay
                         ELSE defaults.longClickDelay,
    doubleClickDelay |-> IF o.doubleClickDelay # 0 THEN o.doubleClickDelay
                         ELSE defaults.doubleClickDelay,
    swipeThreshold   |-> IF o.swipeThreshold # 0 THEN o.swipeThreshold
                         ELSE defaults.swipeThreshold,
    swipeTimeout     |-> IF o.swipeTimeout # 0 THEN o.swipeTimeout
                         ELSE defaults.swipeTimeout,
    flingMinVelocity |-> IF o.flingMinVelocity # 0 THEN o.flingMinVelocity
                         ELSE defaults.flingMinVelocity,
    usePointerCapture |-> IF o.usePointerCapture # "unset"
                          THEN o.usePointerCapture = "true"
                          ELSE defaults.usePointerCapture,
    rotateStepDeg    |-> IF ~IsZero(o.rotateStepDeg) THEN o.rotateStepDeg
                         ELSE defaults.rotateStepDeg,
    pinchZoomStep    |-> IF o.pinchZoomStep.n # 0 THEN o.pinchZoomStep
                         ELSE defaults.pinchZoomStep,
    keepState        |-> o.keepState,
    rangeX           |-> o.rangeX,
    rangeY           |-> o.rangeY,
    throttleMs       |-> IF o.throttle # 0 THEN o.throttle
                         ELSE defaults.throttleMs ]

\* clearTimeout(handle): the first pending timer equal to the handle goes.
RECURSIVE RemoveFirst(_, _)
RemoveFirst(seq, x) ==
  IF seq = <<>> THEN <<>>
  ELSE IF Head(seq) = x THEN Tail(seq)
  ELSE <<Head(seq)>> \o RemoveFirst(Tail(seq), x)

ClearTimeout(W, h) == [W EXCEPT !.timers = RemoveFirst(W.timers, h)]

\* setTimeout(callback, delay): the callback is named by kind; lid is the
\* listenerInfo whose state it closes over, pid the pointer id it closes over.
SetTimeout(W, h) == [W EXCEPT !.timers = Append(W.timers, h)]

Timer(r, kind, delay, pid) ==
  [lid |-> r, kind |-> kind, due |-> now + delay, pid |-> pid]

\* element.setPointerCapture / releasePointerCapture throw on every call
CaptureThrows == cfg.captureThrows

\* element.setPointerCapture(pointerId) inside try/catch: a call that
\* throws is caught and changes nothing
SetPointerCapture(W, r, pid) ==
  [W EXCEPT !.captured = IF CaptureThrows THEN @
                         ELSE @ \cup {<<W.objs[r].element, pid>>},
            !.capLog = Append(@, [call |-> "set", element |-> W.objs[r].element,
                                  pid |-> pid, ref |-> r])]

\* element.releasePointerCapture(pointerId) inside try/catch
ReleasePointerCapture(W, r, pid) ==
  [W EXCEPT !.captured = IF CaptureThrows THEN @
                         ELSE @ \ {<<W.objs[r].element, pid>>},
            !.capLog = Append(@, [call |-> "release",
                                  element |-> W.objs[r].element,
                                  pid |-> pid, ref |-> r])]

\* A callback that runs only while its element holds the pointer's capture
CallbackIfCaptured(W, r, type, ev, data) ==
  IF <<W.objs[r].element, ev.pointerId>> \in W.captured
  THEN [W EXCEPT !.out = Append(@, [ref |-> r, callback |-> W.objs[r].callback,
                                    type |-> type, pointerId |-> ev.pointerId,
                                    at |-> now, data |-> data])]
  ELSE W

\* The pointerId _createUnifiedEvent gives the unified event: of a touch
\* event, the identifier of the first touch (the first changed touch of a
\* touchend or touchcancel) `|| 1`; of a pointer event, its pointerId
\* `|| 1`; of a wheel event, 1
UnifiedPointerId(ev) ==
  IF "touches" \in DOMAIN ev
  THEN LET touch == IF ev.type \in {"touchend", "touchcancel"}
                    THEN ev.changedTouches[1] ELSE ev.touches[1]
       IN IF touch.identifier = 0 THEN 1 ELSE touch.identifier
  ELSE IF "pointerId" \in DOMAIN ev
  THEN IF ev.pointerId = 0 THEN 1 ELSE ev.pointerId
  ELSE 1

\* callback(this._createUnifiedEvent(event, type, additionalData))
\* The application callback throws when it is called
Throws(callback) ==
  "throwing" \in DOMAIN cfg /\ callback \in cfg.throwing

Callback(W, r, type, ev, data) ==
  [W EXCEPT !.out = Append(@, [ref |-> r, callback |-> W.objs[r].callback,
                               type |-> type, pointerId |-> UnifiedPointerId(ev),
                               at |-> now, data |-> data])]

\* One state object shared by all the listeners of a gesture type
SetStateShared(W, r, s) ==
  [W EXCEPT !.objs = [i \in 1..Len(W.objs) |->
                        IF W.objs[i].eventType = W.objs[r].eventType
                        THEN [W.objs[i] EXCEPT !.state = s]
                        ELSE W.objs[i]]]

SetState(W, r, s) == [W EXCEPT !.objs[r].state = s]
SetGhost(W, r, g) == [W EXCEPT !.objs[r].g = g]

-----------------------------------------------------------------------------
(* LongClick: _setupGestureEvents (state) and _setupLongClickEvents *)

LongClickState(mo) ==
  [ timerId |-> NoTimer, lastTapTime |-> 0, startX |-> 0, startY |-> 0,
    startTime |-> 0, active |-> FALSE,
    usePointerCapture |-> mo.usePointerCapture, triggered |-> FALSE,
    completed |-> FALSE, currentPointerId |-> NoPointer ]

\* History of a longclick listener, kept beside its state: the press armed
\* by the last accepted start (its start time and pointer), whether the raw
\* end or cancel of that pointer arrived within the delay, how many
\* LongClick events that press produced and when, and the presses whose end
\* or cancel was handled before the delay elapsed.
LongClickGhost ==
  [ start |-> 0, owner |-> NoPointer, closed |-> FALSE, fired |-> 0,
    firedAt |-> 0, duration |-> 0, early |-> {}, cancelled |-> FALSE,
    afterCancel |-> FALSE ]

LongClickStart(W, r, ev) ==
  LET o == W.objs[r]
      s == o.state
      pointerId == ev.pointerId
      D == MergedOptions(o.options).longClickDelay
  IN IF s.currentPointerId = pointerId /\ s.active THEN W
     ELSE
       LET s1 == [s EXCEPT !.completed = IF s.completed /\ ~s.active
                                          THEN FALSE ELSE @,
                           !.active = TRUE,
                           !.startX = ev.clientX,
                           !.startY = ev.clientY,
                           !.startTime = now,
                           !.triggered = FALSE,
                           !.currentPointerId = pointerId]
           W1 == IF s.usePointerCapture /\ PointerCaptureSupported
                 THEN SetPointerCapture(W, r, pointerId) ELSE W
           W2 == IF s.timerId # NoTimer THEN ClearTimeout(W1, s.timerId)
                 ELSE W1
           h == Timer(r, "longclick", D, pointerId)
           W3 == SetTimeout(W2, h)
           g1 == [o.g EXCEPT !.start = now, !.owner = pointerId,
                             !.closed = FALSE, !.fired = 0, !.firedAt = 0,
                             !.duration = 0,
                             !.early = @ \ {<<now, pointerId>>},
                             !.afterCancel = o.g.cancelled,
                             !.cancelled = FALSE]
       IN SetGhost(SetState(W3, r, [s1 EXCEPT !.timerId = h]), r, g1)

\* the callback of setTimeout(..., longClickDelay) in startHandler
LongClickTimer(W, h) ==
  LET r == h.lid
      o == W.objs[r]
      s == o.state
      D == MergedOptions(o.options).longClickDelay
  IN IF ~s.active \/ s.triggered \/ s.completed
        \/ s.currentPointerId # h.pid
     THEN W
     ELSE
       LET s1 == [s EXCEPT !.triggered = TRUE, !.completed = TRUE]
           data == [duration |-> D, startX |-> s.startX, startY |-> s.startY,
                    pressStart |-> h.due - D]
           mine == o.g.start = h.due - D /\ o.g.owner = h.pid
           g1 == IF mine
                 THEN [o.g EXCEPT !.fired = Min(@ + 1, 2), !.firedAt = now,
                                  !.duration = D]
                 ELSE o.g
       IN Callback(SetGhost(SetState(W, r, s1), r, g1), r, "longclick",
                   [pointerId |-> h.pid], data)

\* An end handler that notes the early release and does nothing about it
LongClickEndIgnored(W, r, ev) ==
  LET o == W.objs[r]
      s == o.state
      D == MergedOptions(o.options).longClickDelay
  IN IF s.currentPointerId # ev.pointerId \/ ~s.active THEN W
     ELSE IF now - s.startTime < D
     THEN SetGhost(W, r, [o.g EXCEPT
                            !.early = @ \cup {<<s.startTime, ev.pointerId>>}])
     ELSE W

LongClickEnd(W, r, ev) ==
  LET o == W.objs[r]
      s == o.state
      endPointerId == ev.pointerId
      D == MergedOptions(o.options).longClickDelay
  IN IF s.currentPointerId # endPointerId THEN W
     ELSE IF ~s.active THEN W
     ELSE
       LET clickDuration == now - s.startTime
           short == clickDuration < D /\ s.timerId # NoTimer
           W1 == IF short THEN ClearTimeout(W, s.timerId) ELSE W
           s1 == [s EXCEPT !.timerId = IF short THEN NoTimer ELSE @,
                           !.active = FALSE]
           W2 == IF s.usePointerCapture /\ PointerCaptureSupported
                 THEN ReleasePointerCapture(W1, r, endPointerId) ELSE W1
           W3 == SetTimeout(W2, Timer(r, "longclickGrace", 300, NoPointer))
           g1 == IF clickDuration < D
                 THEN [o.g EXCEPT !.early = @ \cup {<<s.startTime, endPointerId>>}]
                 ELSE o.g
       IN SetGhost(SetState(W3, r, s1), r, g1)

\* the callback of setTimeout(..., 300) in endHandler
LongClickGraceTimer(W, h) ==
  LET s == W.objs[h.lid].state
  IN SetState(W, h.lid,
       [s EXCEPT !.currentPointerId = NoPointer,
                 !.triggered = IF s.triggered THEN FALSE ELSE @,
                 !.completed = IF s.triggered THEN FALSE ELSE @])

LongClickCancel(W, r, ev) ==
  LET o == W.objs[r]
      s == o.state
      D == MergedOptions(o.options).longClickDelay
  IN IF s.currentPointerId # ev.pointerId THEN W
     ELSE
       LET W1 == IF s.timerId # NoTimer THEN ClearTimeout(W, s.timerId)
                 ELSE W
           s1 == [s EXCEPT !.timerId = NoTimer, !.active = FALSE,
                           !.currentPointerId = NoPointer]
           W2 == SetTimeout(W1, Timer(r, "longclickCancelReset", 100, NoPointer))
           g1 == [o.g EXCEPT
                    !.early = IF s.active /\ now - s.startTime < D
                              THEN @ \cup {<<s.startTime, ev.pointerId>>}
                              ELSE @,
                    !.cancelled = TRUE]
       IN SetGhost(SetState(W2, r, s1), r, g1)

\* the callback of setTimeout(..., 100) in cancelHandler
LongClickCancelResetTimer(W, h) ==
  LET s == W.objs[h.lid].state
  IN SetState(W, h.lid, [s EXCEPT !.triggered = FALSE, !.completed = FALSE])


-----------------------------------------------------------------------------
(* DoubleClick: _setupGestureEvents (state) and _setupDoubleClickEvents *)

DoubleClickState(mo) ==
  [ lastTapTime |-> 0, startX |-> 0, startY |-> 0, active |-> FALSE,
    usePointerCapture |-> mo.usePointerCapture, completed |-> FALSE,
    currentPointerId |-> NoPointer ]

\* History of a doubleclick listener: the last start it was handed (time,
\* position, pointer), whether the raw end or cancel of that tap has
\* arrived and whether it was a cancel, and whether that start completed a
\* DoubleClick, whether it came less than doubleClickDelay after the start
\* of an ended tap before it, and whether that tap had not completed a
\* DoubleClick and no attempt was marked completed when it came.
DoubleClickGhost ==
  [ lastStart |-> 0, lastX |-> 0, lastY |-> 0, lastPid |-> NoPointer,
    lastEnded |-> FALSE, lastWasDouble |-> FALSE, cancelled |-> FALSE,
    afterCancel |-> FALSE, lastCancelled |-> FALSE, lastQuick |-> FALSE,
    lastFresh |-> FALSE ]

\* A window test that lets the boundary in
IsDoubleTapInclusive(timeSinceLastTap, doubleClickDelay, completed) ==
  timeSinceLastTap <= doubleClickDelay /\ ~completed

\* "timeSinceLastTap < doubleClickDelay && !state.completed"
IsDoubleTap(timeSinceLastTap, doubleClickDelay, completed) ==
  timeSinceLastTap < doubleClickDelay /\ ~completed

\* A start handler that emits and leaves the recorded tap as it is
TapKept(s) == s

\* "state.completed = true; ... state.lastTapTime = 0": the tap that
\* completed a DoubleClick is consumed
TapConsumed(s) == [s EXCEPT !.completed = TRUE, !.lastTapTime = 0]

DoubleClickStart(W, r, ev) ==
  LET o == W.objs[r]
      s == o.state
      pointerId == ev.pointerId
      doubleClickDelay == MergedOptions(o.options).doubleClickDelay
      timeSinceLastTap == now - s.lastTapTime
      timeSinceLastStart == now - o.g.lastStart
      double == IsDoubleTap(timeSinceLastTap, doubleClickDelay, s.completed)
      g1 == [o.g EXCEPT !.lastStart = now, !.lastX = ev.clientX,
                        !.lastY = ev.clientY, !.lastPid = pointerId,
                        !.lastEnded = FALSE, !.lastWasDouble = double,
                        !.lastCancelled = FALSE,
                        !.afterCancel = o.g.cancelled, !.cancelled = FALSE,
                        !.lastQuick = /\ o.g.lastStart > 0
                                      /\ o.g.lastEnded
                                      /\ ~o.g.lastCancelled
                                      /\ timeSinceLastStart < doubleClickDelay,
                        !.lastFresh = ~o.g.lastWasDouble /\ ~s.completed]
  IN IF s.currentPointerId = pointerId /\ s.active THEN W
     ELSE IF double
     THEN
       LET data == [interval |-> timeSinceLastTap, startX |-> s.startX,
                    startY |-> s.startY]
           s1 == TapConsumed(s)
           W1 == Callback(SetState(W, r, s1), r, "doubleclick", ev, data)
           W2 == SetTimeout(W1, Timer(r, "doubleclickReset", 300, NoPointer))
       IN SetGhost(W2, r, g1)
     ELSE
       LET s1 == [s EXCEPT !.active = TRUE, !.startX = ev.clientX,
                           !.startY = ev.clientY, !.lastTapTime = now,
                           !.currentPointerId = pointerId]
           W1 == IF s.usePointerCapture /\ PointerCaptureSupported
                 THEN SetPointerCapture(W, r, pointerId) ELSE W
       IN SetGhost(SetState(W1, r, s1), r, g1)

\* the callback of setTimeout(..., 300) in startHandler
DoubleClickResetTimer(W, h) ==
  LET s == W.objs[h.lid].state
  IN SetState(W, h.lid, [s EXCEPT !.active = FALSE, !.completed = FALSE,
                                  !.currentPointerId = NoPointer])

DoubleClickEnd(W, r, ev) ==
  LET o == W.objs[r]
      s == o.state
      endPointerId == ev.pointerId
      doubleClickDelay == MergedOptions(o.options).doubleClickDelay
  IN IF s.currentPointerId # endPointerId THEN W
     ELSE IF ~s.active THEN W
     ELSE
       LET W1 == IF s.usePointerCapture /\ PointerCaptureSupported
                 THEN ReleasePointerCapture(W, r, endPointerId) ELSE W
           W2 == SetTimeout(W1, Timer(r, "doubleclickTimeout",
                                      doubleClickDelay + 50, NoPointer))
       IN SetState(W2, r, [s EXCEPT !.active = FALSE])

\* the callback of setTimeout(..., doubleClickDelay + 50) in endHandler
DoubleClickTimeoutTimer(W, h) ==
  LET o == W.objs[h.lid]
      s == o.state
      doubleClickDelay == MergedOptions(o.options).doubleClickDelay
  IN IF now - s.lastTapTime > doubleClickDelay
     THEN SetState(W, h.lid, [s EXCEPT !.currentPointerId = NoPointer,
                                       !.lastTapTime = 0,
                                       !.completed = FALSE])
     ELSE W

\* A cancel handler that also forgets the recorded tap
DoubleClickCancelForgets(W, r, ev) ==
  LET s == W.objs[r].state
  IN IF s.currentPointerId # ev.pointerId THEN W
     ELSE SetGhost(SetState(W, r, [s EXCEPT !.active = FALSE,
                                            !.currentPointerId = NoPointer,
                                            !.lastTapTime = 0]),
                   r, [W.objs[r].g EXCEPT !.cancelled = TRUE])

DoubleClickCancel(W, r, ev) ==
  LET s == W.objs[r].state
  IN IF s.currentPointerId # ev.pointerId THEN W
     ELSE SetGhost(SetState(W, r, [s EXCEPT !.active = FALSE,
                                            !.currentPointerId = NoPointer]),
                   r, [W.objs[r].g EXCEPT !.cancelled = TRUE])

-----------------------------------------------------------------------------
(* Swipe: _setupGestureEvents (state) and _setupSwipeEvents *)

\* Math.sqrt in whole pixels (rounded down; exact along one axis)
Sqrt(n) == CHOOSE k \in 0..n : k * k <= n /\ (k + 1) * (k + 1) > n

\* "absX > absY ? (x > 0 ? right : left) : (y > 0 ? down : up)"
Direction(x, y) ==
  IF Abs(x) > Abs(y) THEN (IF x > 0 THEN "right" ELSE "left")
  ELSE (IF y > 0 THEN "down" ELSE "up")

SwipeState(mo) ==
  [ active |-> FALSE, startX |-> 0, startY |-> 0, startTime |-> 0,
    currentX |-> 0, currentY |-> 0, pointerId |-> NoPointer,
    usePointerCapture |-> mo.usePointerCapture, completed |-> FALSE ]

\* History of a swipe, fling or drag listener: the attempt in progress by
\* the rule "a start opens an attempt unless one is open" (its pointer, start
\* position and time), the raw end that closed it, and whether the attempt
\* was opened by the first start after a handled cancel.  A fling history
\* also keeps the trail: the raw samples (pointer, position, time) the
\* element delivered for each pointer since that pointer went down.
AttemptGhost ==
  [ owner |-> NoPointer, startX |-> 0, startY |-> 0, startTime |-> 0,
    open |-> FALSE, endX |-> 0, endY |-> 0, endTime |-> 0, ended |-> FALSE,
    cancelled |-> FALSE, afterCancel |-> FALSE, trail |-> << >> ]

GhostStart(g, ev) ==
  IF g.open THEN g
  ELSE [g EXCEPT !.owner = ev.pointerId, !.startX = ev.clientX,
                 !.startY = ev.clientY, !.startTime = now, !.open = TRUE,
                 !.ended = FALSE, !.afterCancel = g.cancelled, !.cancelled = FALSE]

SwipeStart(W, r, ev) ==
  LET o == W.objs[r]
      s == o.state
      pointerId == ev.pointerId
  IN IF s.pointerId = pointerId /\ s.active THEN W
     ELSE
       LET s1 == [s EXCEPT !.active = TRUE, !.completed = FALSE,
                           !.pointerId = pointerId,
                           !.startX = ev.clientX, !.startY = ev.clientY,
                           !.currentX = ev.clientX, !.currentY = ev.clientY,
                           !.startTime = now]
           W1 == IF s.usePointerCapture /\ PointerCaptureSupported
                 THEN SetPointerCapture(W, r, pointerId) ELSE W
       IN SetGhost(SetState(W1, r, s1), r, GhostStart(o.g, ev))

SwipeMove(W, r, ev) ==
  LET s == W.objs[r].state
  IN IF s.pointerId # ev.pointerId THEN W
     ELSE IF ~s.active \/ s.completed THEN W
     ELSE SetState(W, r, [s EXCEPT !.currentX = ev.clientX,
                                   !.currentY = ev.clientY])

\* A test with both bounds exclusive
SwipeDetectedExclusive(deltaTime, deltaX, deltaY, mo) ==
  /\ deltaTime < mo.swipeTimeout
  /\ deltaX * deltaX + deltaY * deltaY > mo.swipeThreshold * mo.swipeThreshold

\* endHandler: deltaTime <= swipeTimeout and distance >= swipeThreshold
\* (compared as squares: the square root of a whole number and a whole
\* threshold compare as their squares do)
SwipeDetected(deltaTime, deltaX, deltaY, mo) ==
  /\ deltaTime <= mo.swipeTimeout
  /\ deltaX * deltaX + deltaY * deltaY
       >= mo.swipeThreshold * mo.swipeThreshold

SwipeEnd(W, r, ev) ==
  LET o == W.objs[r]
      s == o.state
      mo == MergedOptions(o.options)
      eventPointerId == ev.pointerId
  IN IF s.pointerId # eventPointerId THEN W
     ELSE IF ~s.active \/ s.completed THEN W
     ELSE
       LET deltaTime == now - s.startTime
           W1 == IF s.usePointerCapture /\ PointerCaptureSupported
                 THEN ReleasePointerCapture(W, r, eventPointerId) ELSE W
           deltaX == s.currentX - s.startX
           deltaY == s.currentY - s.startY
           distance == Sqrt(deltaX * deltaX + deltaY * deltaY)
           swipe == SwipeDetected(deltaTime, deltaX, deltaY, mo)
           data == [direction |-> Direction(deltaX, deltaY),
                    distance |-> distance, deltaX |-> deltaX,
                    deltaY |-> deltaY, duration |-> deltaTime,
                    startX |-> s.startX, startY |-> s.startY,
                    endX |-> s.currentX, endY |-> s.currentY]
           s1 == [s EXCEPT !.completed = IF swipe THEN TRUE ELSE @,
                           !.active = FALSE, !.pointerId = NoPointer]
           W2 == IF swipe
                 THEN Callback(SetState(W1, r, s1), r, "swipe", ev, data)
                 ELSE SetState(W1, r, s1)
       IN IF swipe /\ Throws(o.callback)
          THEN Callback(SetState(W1, r, [s EXCEPT !.completed = TRUE]), r,
                        "swipe", ev, data)
          ELSE SetTimeout(W2, Timer(r, "swipeReset", 300, NoPointer))

\* the callback of setTimeout(..., 300) in endHandler and cancelHandler
SwipeResetTimer(W, h) ==
  SetState(W, h.lid, [W.objs[h.lid].state EXCEPT !.completed = FALSE])

SwipeCancel(W, r, ev) ==
  LET o == W.objs[r]
      s == o.state
      eventPointerId == ev.pointerId
  IN IF s.pointerId # eventPointerId THEN W
     ELSE
       LET W1 == IF s.usePointerCapture /\ PointerCaptureSupported
                 THEN ReleasePointerCapture(W, r, eventPointerId) ELSE W
           s1 == [s EXCEPT !.active = FALSE, !.pointerId = NoPointer]
           W2 == SetTimeout(SetState(W1, r, s1),
                            Timer(r, "swipeReset", 300, NoPointer))
       IN SetGhost(W2, r, [o.g EXCEPT !.cancelled = TRUE])

-----------------------------------------------------------------------------
(* Fling: _setupGestureEvents (state) and _setupFlingEvents *)

MAX_VELOCITY_POINTS == 5

FlingState(mo) ==
  [ active |-> FALSE, points |-> << >>, velocityX |-> <<0, 1>>,
    velocityY |-> <<0, 1>>, pointerId |-> NoPointer,
    usePointerCapture |-> mo.usePointerCapture, completed |-> FALSE ]

FlingStart(W, r, ev) ==
  LET o == W.objs[r]
      s == o.state
      pointerId == ev.pointerId
  IN IF s.pointerId = pointerId /\ s.active THEN W
     ELSE
       LET s1 == [s EXCEPT !.active = TRUE, !.completed = FALSE,
                           !.pointerId = pointerId,
                           !.points = << [x |-> ev.clientX, y |-> ev.clientY,
                                          timestamp |-> now] >>,
                           !.velocityX = <<0, 1>>, !.velocityY = <<0, 1>>]
           W1 == IF s.usePointerCapture /\ PointerCaptureSupported
                 THEN SetPointerCapture(W, r, pointerId) ELSE W
       IN SetGhost(SetState(W1, r, s1), r, GhostStart(o.g, ev))

FlingMove(W, r, ev) ==
  LET s == W.objs[r].state
      pushed == Append(s.points, [x |-> ev.clientX, y |-> ev.clientY,
                                  timestamp |-> now])
  IN IF s.pointerId # ev.pointerId THEN W
     ELSE IF ~s.active \/ s.completed THEN W
     ELSE SetState(W, r,
            [s EXCEPT !.points = IF Len(pushed) > MAX_VELOCITY_POINTS
                                 THEN Tail(pushed) ELSE pushed])

\* A threshold test that leaves the threshold itself out
SpeedAbove(dx, dy, ms, v) ==
  (dx * dx + dy * dy) * 100 * 100 > ((v \div 10) * ms) * ((v \div 10) * ms)

\* "Math.sqrt(vx * vx + vy * vy) >= flingMinVelocity" for vx = dx / (ms /
\* 1000): both sides squared and divided by 100 (thresholds are multiples
\* of 10 px/s)
SpeedAtLeast(dx, dy, ms, v) ==
  (dx * dx + dy * dy) * 100 * 100 >= ((v \div 10) * ms) * ((v \div 10) * ms)

\* Velocities are px/s, kept as exact fractions <<px * 1000, ms>>
FlingEnd(W, r, ev) ==
  LET o == W.objs[r]
      s == o.state
      mo == MergedOptions(o.options)
      eventPointerId == ev.pointerId
  IN IF s.pointerId # eventPointerId THEN W
     ELSE IF ~s.active \/ s.completed THEN W
     ELSE
       LET W1 == IF s.usePointerCapture /\ PointerCaptureSupported
                 THEN ReleasePointerCapture(W, r, eventPointerId) ELSE W
           enough == Len(s.points) >= 2
           lastPoint == s.points[Len(s.points)]
           firstPoint == s.points[1]
           deltaX == lastPoint.x - firstPoint.x
           deltaY == lastPoint.y - firstPoint.y
           deltaMs == lastPoint.timestamp - firstPoint.timestamp
           moving == enough /\ deltaMs > 0
           fling == /\ moving
                    /\ SpeedAtLeast(deltaX, deltaY, deltaMs,
                                    mo.flingMinVelocity)
           data == [direction |-> Direction(deltaX, deltaY),
                    velocityX |-> <<deltaX * 1000, deltaMs>>,
                    velocityY |-> <<deltaY * 1000, deltaMs>>,
                    startPoint |-> firstPoint, endPoint |-> lastPoint,
                    deltaTime |-> deltaMs]
           s1 == [s EXCEPT
                    !.velocityX = IF moving THEN <<deltaX * 1000, deltaMs>>
                                  ELSE @,
                    !.velocityY = IF moving THEN <<deltaY * 1000, deltaMs>>
                                  ELSE @,
                    !.completed = IF fling THEN TRUE ELSE @,
                    !.active = FALSE, !.pointerId = NoPointer,
                    !.points = << >>]
           W2 == IF fling
                 THEN Callback(SetState(W1, r, s1), r, "fling", ev, data)
                 ELSE SetState(W1, r, s1)
       IN IF fling /\ Throws(o.callback)
          THEN Callback(SetState(W1, r, [s EXCEPT
                                           !.velocityX = s1.velocityX,
                                           !.velocityY = s1.velocityY,
                                           !.completed = TRUE]), r,
                        "fling", ev, data)
          ELSE SetTimeout(W2, Timer(r, "flingReset", 300, NoPointer))

\* the callback of setTimeout(..., 300) in endHandler and cancelHandler
FlingResetTimer(W, h) ==
  SetState(W, h.lid, [W.objs[h.lid].state EXCEPT !.completed = FALSE])

FlingCancel(W, r, ev) ==
  LET o == W.objs[r]
      s == o.state
      eventPointerId == ev.pointerId
  IN IF s.pointerId # eventPointerId THEN W
     ELSE
       LET W1 == IF s.usePointerCapture /\ PointerCaptureSupported
                 THEN ReleasePointerCapture(W, r, eventPointerId) ELSE W
           s1 == [s EXCEPT !.active = FALSE, !.pointerId = NoPointer,
                           !.points = << >>]
           W2 == SetTimeout(SetState(W1, r, s1),
                            Timer(r, "flingReset", 300, NoPointer))
       IN SetGhost(W2, r, [o.g EXCEPT !.cancelled = TRUE])

-----------------------------------------------------------------------------
(* Drag: _setupDragEvents (state), _setupDragStartEvents,                  *)
(* _setupDragMoveEvents and _setupDragEndEvents                            *)

DragState(mo) ==
  [ active |-> FALSE, startX |-> 0, startY |-> 0, currentX |-> 0,
    currentY |-> 0, rangeX |-> mo.rangeX, rangeY |-> mo.rangeY,
    keepState |-> mo.keepState, usePointerCapture |-> mo.usePointerCapture,
    capturedPointer |-> NoPointer, cumulativeX |-> 0, cumulativeY |-> 0,
    currentDeltaX |-> 0, currentDeltaY |-> 0, lastMoveTime |-> 0 ]

\* "Initialize drag session" of both dragStartHandlers
DragSession(s, ev) ==
  [s EXCEPT !.active = TRUE, !.startX = ev.clientX, !.startY = ev.clientY,
            !.currentX = ev.clientX, !.currentY = ev.clientY,
            !.capturedPointer = ev.pointerId, !.currentDeltaX = 0,
            !.currentDeltaY = 0, !.lastMoveTime = now]

\* this.eventListeners.forEach: the callback of every registered listener of
\* the given type on the element, in Map order
RECURSIVE CallRegistered(_, _, _, _, _, _)
CallRegistered(W, regs, element, type, ev, data) ==
  IF regs = <<>> THEN W
  ELSE LET info == W.objs[Head(regs).ref]
           called == info.element = element /\ info.eventType = type
           W1 == IF called
                 THEN Callback(W, Head(regs).ref, type, ev, data) ELSE W
       IN IF called /\ Throws(info.callback) THEN W1
          ELSE CallRegistered(W1, Tail(regs), element, type, ev, data)

\* A callback called by the forEach over the registrations throws
Thrown(W, regs, element, type) ==
  \E i \in 1..Len(regs) :
    /\ W.objs[regs[i].ref].element = element
    /\ W.objs[regs[i].ref].eventType = type
    /\ Throws(W.objs[regs[i].ref].callback)

\* dragStartHandler of a dragstart listener
DragStartOnly(W, r, ev) ==
  LET o == W.objs[r]
      s == o.state
  IN IF s.active /\ s.capturedPointer = ev.pointerId THEN W
     ELSE
       LET s1 == DragSession(s, ev)
           W1 == IF s.usePointerCapture /\ PointerCaptureSupported
                 THEN SetPointerCapture(W, r, ev.pointerId) ELSE W
           data == [startX |-> s1.startX, startY |-> s1.startY,
                    deltaX |-> s1.cumulativeX, deltaY |-> s1.cumulativeY]
       IN Callback(SetGhost(SetState(W1, r, s1), r, GhostStart(o.g, ev)),
                   r, "dragstart", ev, data)

\* dragStartHandler of a drag listener
DragStart(W, r, ev) ==
  LET o == W.objs[r]
      s == o.state
  IN IF s.active /\ s.capturedPointer = ev.pointerId THEN W
     ELSE
       LET s1 == DragSession(s, ev)
           W1 == IF s.usePointerCapture /\ PointerCaptureSupported
                 THEN SetPointerCapture(W, r, ev.pointerId) ELSE W
           data == [startX |-> s1.startX, startY |-> s1.startY,
                    deltaX |-> s1.cumulativeX, deltaY |-> s1.cumulativeY]
           W2 == SetGhost(SetState(W1, r, s1), r, GhostStart(o.g, ev))
       IN CallRegistered(W2, W2.regs, o.element, "dragstart", ev, data)

\* A bounds check that forgets the lower bound
ConstrainedAbove(total, range) ==
  IF range = <<>> THEN total
  ELSE IF total > range[2] THEN range[2]
  ELSE total

\* One axis of the bounds check of dragMoveHandler
Constrained(total, range) ==
  IF range = <<>> THEN total
  ELSE IF total < range[1] THEN range[1]
  ELSE IF total > range[2] THEN range[2]
  ELSE total

OutOfBounds(total, range) ==
  IF range = <<>> THEN FALSE
  ELSE total < range[1] \/ total > range[2]

DragMove(W, r, ev) ==
  LET o == W.objs[r]
      s == o.state
      throttleMs == MergedOptions(o.options).throttleMs
  IN IF ~s.active THEN W
     ELSE IF s.capturedPointer # ev.pointerId THEN W
     ELSE IF throttleMs > 0 /\ now - s.lastMoveTime < throttleMs THEN W
     ELSE
       LET s1 == [s EXCEPT !.lastMoveTime = now,
                           !.currentX = ev.clientX, !.currentY = ev.clientY,
                           !.currentDeltaX = ev.clientX - s.startX,
                           !.currentDeltaY = ev.clientY - s.startY]
           totalDeltaX == s1.cumulativeX + s1.currentDeltaX
           totalDeltaY == s1.cumulativeY + s1.currentDeltaY
           data == [startX |-> s1.startX, startY |-> s1.startY,
                    currentX |-> s1.currentX, currentY |-> s1.currentY,
                    deltaX |-> totalDeltaX, deltaY |-> totalDeltaY,
                    constrainedDeltaX |-> Constrained(totalDeltaX, s.rangeX),
                    constrainedDeltaY |-> Constrained(totalDeltaY, s.rangeY),
                    currentDeltaX |-> s1.currentDeltaX,
                    currentDeltaY |-> s1.currentDeltaY,
                    isOutOfBounds |-> \/ OutOfBounds(totalDeltaX, s.rangeX)
                                      \/ OutOfBounds(totalDeltaY, s.rangeY),
                    isOutOfBoundsX |-> OutOfBounds(totalDeltaX, s.rangeX),
                    isOutOfBoundsY |-> OutOfBounds(totalDeltaY, s.rangeY)]
       IN Callback(SetState(W, r, s1), r, "drag", ev, data)

\* A fold that adds the session up without bringing it into the range
FoldUnbounded(v, range) == v

\* "Math.max(min, Math.min(max, v))" of dragEndHandler
Fold(v, range) ==
  IF range = <<>> THEN v ELSE Max(range[1], Min(range[2], v))

DragEnd(W, r, ev) ==
  LET o == W.objs[r]
      s == o.state
  IN IF ~s.active THEN W
     ELSE IF s.capturedPointer # ev.pointerId THEN W
     ELSE
       LET cx == IF s.keepState
                 THEN Fold(s.cumulativeX + s.currentDeltaX, s.rangeX) ELSE 0
           cy == IF s.keepState
                 THEN Fold(s.cumulativeY + s.currentDeltaY, s.rangeY) ELSE 0
           data == [startX |-> s.startX, startY |-> s.startY,
                    endX |-> s.currentX, endY |-> s.currentY,
                    deltaX |-> cx, deltaY |-> cy,
                    currentDeltaX |-> s.currentDeltaX,
                    currentDeltaY |-> s.currentDeltaY,
                    duration |-> now - s.lastMoveTime,
                    isOutOfBounds |-> FALSE]
           s1 == [s EXCEPT !.cumulativeX = cx, !.cumulativeY = cy]
           W1 == CallRegistered(SetState(W, r, s1), W.regs, o.element,
                                "dragend", ev, data)
           s2 == [W1.objs[r].state EXCEPT !.active = FALSE,
                                          !.capturedPointer = NoPointer]
           W2 == SetState(W1, r, s2)
       IN IF Thrown(W, W.regs, o.element, "dragend") THEN W1
          ELSE IF s.usePointerCapture /\ PointerCaptureSupported
          THEN ReleasePointerCapture(W2, r, ev.pointerId) ELSE W2

\* A cancel handler that also throws the cumulative offset away
DragCancelResets(W, r, ev) ==
  LET s == W.objs[r].state
  IN IF ~s.active \/ s.capturedPointer # ev.pointerId THEN W
     ELSE SetState(W, r, [s EXCEPT !.active = FALSE,
                                   !.capturedPointer = NoPointer,
                                   !.cumulativeX = 0, !.cumulativeY = 0])

DragCancel(W, r, ev) ==
  LET o == W.objs[r]
      s == o.state
  IN IF ~s.active THEN W
     ELSE IF s.capturedPointer # ev.pointerId THEN W
     ELSE
       LET W1 == IF s.usePointerCapture /\ PointerCaptureSupported
                 THEN ReleasePointerCapture(W, r, ev.pointerId) ELSE W
           s1 == [s EXCEPT !.active = FALSE, !.capturedPointer = NoPointer]
       IN SetGhost(SetState(W1, r, s1), r, [o.g EXCEPT !.cancelled = TRUE])

\* dragEndHandler of a dragend listener
DragEndOnly(W, r, ev) ==
  LET s == W.objs[r].state
  IN Callback(W, r, "dragend", ev,
              [deltaX |-> s.cumulativeX, deltaY |-> s.cumulativeY])

-----------------------------------------------------------------------------
(* Basic events: _setupBasicEvents.handleEvent *)

\* "Input device filtering": the options (the ones passed, not merged) turn
\* the event away
Filtered(options, ev) ==
  \/ options.penOnly /\ ev.pointerType # "pen"
  \/ options.touchOnly /\ ev.pointerType # "touch"
  \/ options.mouseOnly /\ ev.pointerType # "mouse"

BasicHandleEvent(W, r, ev) ==
  LET o == W.objs[r]
  IN IF o.eventType = "start" /\ Filtered(o.options, ev) THEN W
     ELSE Callback(W, r, o.eventType, ev,
                   [clientX |-> ev.clientX, clientY |-> ev.clientY])

-----------------------------------------------------------------------------
(* rotate: _setupRotateEvents.  Ctrl+wheel and the pen turn the angle of   *)
(* the listener in binary64 degrees; two touches turn it by the angle of   *)
(* the line between them, in thousandths of a degree.                      *)

\* JS null for a touch identifier (the platform's identifiers are >= 0)
NoTouch == -1

\* Math.atan2(dy, dx) * 180 / Math.PI in thousandths of a degree, for the
\* directions the touches of the model take
Atan2(dy, dx) ==
  CASE dy = 0 /\ dx >= 0 -> 0
    [] dy = 0 /\ dx < 0 -> 180000
    [] dx = 0 /\ dy > 0 -> 90000
    [] dx = 0 /\ dy < 0 -> -90000
    [] dx = 57 /\ dy = 1 -> 1005
    [] dx = 58 /\ dy = 1 -> 988
    [] dx = -100 /\ dy = 2 -> 178854
    [] dx = -100 /\ dy = -2 -> -178854

RotateState(mo) ==
  [ active |-> FALSE, startAngle |-> NumZero, currentAngle |-> NumZero,
    rotation |-> NumZero, pointerId |-> NoPointer,
    penInitialRotation |-> NumZero, touch1 |-> NoTouch, touch2 |-> NoTouch,
    initialAngle |-> 0, lastAngle |-> 0, totalRotation |-> 0,
    usePointerCapture |-> mo.usePointerCapture ]

\* x % 360, then + 360 when negative
Normalize(x) ==
  LET m == NumMod360(x)
  IN IF IsNegative(m) THEN NumAdd(m, Whole(360)) ELSE m

\* wheelHandler
RotateWheel(W, r, ev) ==
  LET o == W.objs[r]
      s == o.state
      rotateStepDeg == MergedOptions(o.options).rotateStepDeg
      rotationDelta == IF ev.deltaY > 0 THEN Negate(rotateStepDeg)
                       ELSE rotateStepDeg
      rotation == NumAdd(s.rotation, rotationDelta)
      currentAngle == Normalize(NumAdd(s.currentAngle, rotationDelta))
  IN IF ~ev.ctrlKey \/ ev.altKey THEN W
     ELSE Callback(SetState(W, r, [s EXCEPT !.rotation = rotation,
                                            !.currentAngle = currentAngle]),
                   r, "rotate", ev,
                   [angle |-> currentAngle, rotation |-> rotation,
                    deltaAngle |-> rotationDelta, source |-> "mouse"])

\* A pointer event of a pen
IsPen(ev) == "pointerType" \in DOMAIN ev /\ ev.pointerType = "pen"

\* penRotationHandler.  The pen reports no rotation property and stands
\* upright (tiltX = tiltY = 0), so the rotation read is its twist, and 0
\* (atan2(0, 0)) when the twist is 0.
RotatePen(W, r, ev) ==
  LET o == W.objs[r]
      s == o.state
      currentRotation == Whole(ev.twist)
      deltaRotation == NumSub(currentRotation, s.penInitialRotation)
      sum == NumMod360(NumAdd(s.startAngle, deltaRotation))
      currentAngle == IF IsNegative(sum) THEN NumAdd(sum, Whole(360)) ELSE sum
      rotation == NumAdd(s.rotation, deltaRotation)
  IN IF ~IsPen(ev) THEN W
     ELSE IF ~s.active
       THEN SetState(W, r, [s EXCEPT !.active = TRUE,
                                     !.pointerId = ev.pointerId,
                                     !.penInitialRotation = currentRotation,
                                     !.startAngle = NumZero,
                                     !.currentAngle = NumZero])
     ELSE IF s.pointerId # ev.pointerId THEN W
     ELSE IF deltaRotation.hi < 1 THEN W
     ELSE Callback(SetState(W, r, [s EXCEPT
                              !.currentAngle = currentAngle,
                              !.rotation = rotation,
                              !.penInitialRotation = currentRotation,
                              !.startAngle = sum]),
                   r, "rotate", ev,
                   [angle |-> currentAngle, rotation |-> rotation,
                    deltaAngle |-> deltaRotation, source |-> "pen"])

\* penEndHandler
RotatePenEnd(W, r, ev) ==
  LET s == W.objs[r].state
  IN IF ~IsPen(ev) THEN W
     ELSE IF s.pointerId = ev.pointerId
       THEN SetState(W, r, [s EXCEPT !.active = FALSE,
                                     !.pointerId = NoPointer])
     ELSE W

\* this.defaults.touchFingerDistance
touchFingerDistance == 30

\* Math.sqrt(dx * dx + dy * dy) between two touches
Distance(t1, t2) ==
  Sqrt((t2.clientX - t1.clientX) * (t2.clientX - t1.clientX)
       + (t2.clientY - t1.clientY) * (t2.clientY - t1.clientY))

\* The angle of the line from touch t1 to touch t2
AngleOf(t1, t2) == Atan2(t2.clientY - t1.clientY, t2.clientX - t1.clientX)

\* touchStartHandler
RotateTouchStart(W, r, ev) ==
  LET s == W.objs[r].state
      touch1 == ev.touches[1]
      touch2 == ev.touches[2]
      initialAngle == AngleOf(touch1, touch2)
  IN IF Len(ev.touches) # 2 THEN W
     ELSE IF Distance(touch1, touch2) < touchFingerDistance THEN W
     ELSE SetState(W, r, [s EXCEPT !.active = TRUE,
                                   !.touch1 = touch1.identifier,
                                   !.touch2 = touch2.identifier,
                                   !.initialAngle = initialAngle,
                                   !.lastAngle = initialAngle,
                                   !.totalRotation = 0])

\* The difference of two angles as it is
ShortestPathNaive(delta) == delta

\* deltaAngle adjusted for the shortest rotation path
ShortestPath(delta) ==
  IF delta > 180000 THEN delta - 360000
  ELSE IF delta < -180000 THEN delta + 360000
  ELSE delta

\* The two touches of a touchmove as the tracked touch1 and touch2, or << >>
\* when they are not the tracked ones
Tracked(s, ev) ==
  LET t1 == ev.touches[1]
      t2 == ev.touches[2]
  IN IF t1.identifier = s.touch1 /\ t2.identifier = s.touch2
     THEN <<t1, t2>>
     ELSE IF t1.identifier = s.touch2 /\ t2.identifier = s.touch1
     THEN <<t2, t1>>
     ELSE << >>

\* touchMoveHandler
RotateTouchMove(W, r, ev) ==
  LET s == W.objs[r].state
      pair == Tracked(s, ev)
      currentAngle == AngleOf(pair[1], pair[2])
      deltaAngle == ShortestPath(currentAngle - s.lastAngle)
      totalRotation == s.totalRotation + deltaAngle
  IN IF ~s.active \/ Len(ev.touches) # 2 THEN W
     ELSE IF pair = << >> THEN W
     ELSE IF Abs(deltaAngle) < 1000 THEN W
     ELSE Callback(SetState(W, r, [s EXCEPT !.totalRotation = totalRotation,
                                            !.lastAngle = currentAngle]),
                   r, "rotate", ev,
                   [angle |-> currentAngle, rotation |-> totalRotation,
                    deltaAngle |-> deltaAngle, source |-> "touch"])

\* touchEndHandler (of rotate and of pinchzoom)
TouchEnd(W, r, ev) ==
  LET s == W.objs[r].state
  IN IF ~s.active THEN W
     ELSE IF Len(ev.touches) < 2 THEN SetState(W, r, [s EXCEPT !.active = FALSE])
     ELSE W

-----------------------------------------------------------------------------
(* pinchzoom: _setupPinchZoomEvents *)

\* this.defaults.minScale and this.defaults.maxScale
minScale == Rat(1, 10)
maxScale == Rat(10, 1)

PinchZoomState(mo) ==
  [ active |-> FALSE, scale |-> Rat(1, 1), touch1 |-> NoTouch,
    touch2 |-> NoTouch, initialDistance |-> 0, lastDistance |-> 0,
    totalScale |-> Rat(1, 1), usePointerCapture |-> mo.usePointerCapture ]

\* Math.max(this.defaults.minScale, Math.min(this.defaults.maxScale, x))
Limit(x) == MathMax(minScale, MathMin(maxScale, x))

\* wheelHandler
PinchWheel(W, r, ev) ==
  LET o == W.objs[r]
      s == o.state
      pinchZoomStep == MergedOptions(o.options).pinchZoomStep
      zoomDelta == IF ev.deltaY > 0
                   THEN Rat(pinchZoomStep.d - pinchZoomStep.n, pinchZoomStep.d)
                   ELSE Rat(pinchZoomStep.d + pinchZoomStep.n, pinchZoomStep.d)
      scale == Limit(RatMul(s.scale, zoomDelta))
  IN IF ~(ev.ctrlKey /\ ev.altKey) THEN W
     ELSE Callback(SetState(W, r, [s EXCEPT !.scale = scale]),
                   r, "pinchzoom", ev,
                   [scale |-> scale, deltaScale |-> zoomDelta,
                    source |-> "mouse"])

\* touchStartHandler
PinchTouchStart(W, r, ev) ==
  LET s == W.objs[r].state
      touch1 == ev.touches[1]
      touch2 == ev.touches[2]
      distance == Distance(touch1, touch2)
  IN IF Len(ev.touches) # 2 THEN W
     ELSE IF distance < touchFingerDistance THEN W
     ELSE SetState(W, r, [s EXCEPT !.active = TRUE,
                                   !.touch1 = touch1.identifier,
                                   !.touch2 = touch2.identifier,
                                   !.initialDistance = distance,
                                   !.lastDistance = distance,
                                   !.totalScale = Rat(1, 1)])

\* touchMoveHandler
PinchTouchMove(W, r, ev) ==
  LET s == W.objs[r].state
      pair == Tracked(s, ev)
      currentDistance == Distance(pair[1], pair[2])
      scaleFactor == RatDiv(currentDistance, s.lastDistance)
      totalScale == Limit(RatMul(s.totalScale, scaleFactor))
  IN IF ~s.active \/ Len(ev.touches) # 2 THEN W
     ELSE IF pair = << >> THEN W
     ELSE IF RatLess(scaleFactor, Rat(1, 2)) \/ RatLess(Rat(2, 1), scaleFactor)
       THEN SetState(W, r, [s EXCEPT !.lastDistance = currentDistance])
     ELSE Callback(SetState(W, r, [s EXCEPT !.totalScale = totalScale,
                                            !.lastDistance = currentDistance]),
                   r, "pinchzoom", ev,
                   [scale |-> totalScale, deltaScale |-> scaleFactor,
                    source |-> "touch"])

-----------------------------------------------------------------------------
(* The registry *)

GestureTypes == {"longclick", "doubleclick", "swipe", "fling"}
DragTypes == {"dragstart", "drag", "dragend"}
BasicTypes == {"start", "move", "end", "cancel"}

\* The ids registered, in Map order
RegisteredIds(regs) == {regs[i].id : i \in 1..Len(regs)}

RefOf(regs, id) == (CHOOSE i \in 1..Len(regs) : regs[i].id = id)

\* A lookup that never finds a registration
FindNoListener(regs, os, element, eventType, callback) == <<>>

\* _findExistingListener: the id of the first entry with the same element,
\* eventType and callback, or <<>> for null
FindExistingListener(regs, os, element, eventType, callback) ==
  LET hits == {i \in 1..Len(regs) :
                 /\ os[regs[i].ref].element = element
                 /\ os[regs[i].ref].eventType = eventType
                 /\ os[regs[i].ref].callback = callback}
  IN IF hits = {} THEN <<>>
     ELSE regs[CHOOSE i \in hits : \A j \in hits : i <= j].id

\* _generateListenerId: `${Date.now()}-${random}-${this.listenerCounter++}`;
\* stamp stands for the timestamp and the random number
GenerateListenerId(stamp, counter) == <<stamp, counter>>

\* The native subscriptions a registration installs: _registerEventListeners
\* on the pointer channel plus the pointerleave handler of the gestures
\* (_setupBasicEvents, _setup<Gesture>Events, _setupDrag*Events)
NativeListeners(eventType) ==
  CASE eventType \in BasicTypes ->
         << [type |-> PointerEventName(eventType), handler |-> "basic"] >>
    [] eventType \in {"longclick", "doubleclick"} ->
         << [type |-> "pointerdown",   handler |-> "start"],
            [type |-> "pointerup",     handler |-> "end"],
            [type |-> "pointercancel", handler |-> "cancel"],
            [type |-> "pointerleave",  handler |-> "cancel"] >>
    [] eventType \in {"swipe", "fling", "drag"} ->
         << [type |-> "pointerdown",   handler |-> "start"],
            [type |-> "pointermove",   handler |-> "move"],
            [type |-> "pointerup",     handler |-> "end"],
            [type |-> "pointercancel", handler |-> "cancel"],
            [type |-> "pointerleave",  handler |-> "cancel"] >>
    [] eventType = "dragstart" ->
         << [type |-> "pointerdown",   handler |-> "start"] >>
    [] eventType = "dragend" ->
         << [type |-> "pointerup",     handler |-> "end"] >>
    [] eventType = "rotate" ->
         << [type |-> "wheel",         handler |-> "wheel"],
            [type |-> "pointerdown",   handler |-> "penRotation"],
            [type |-> "pointermove",   handler |-> "penRotation"],
            [type |-> "pointerup",     handler |-> "penEnd"],
            [type |-> "pointercancel", handler |-> "penEnd"],
            [type |-> "pointerleave",  handler |-> "penEnd"],
            [type |-> "touchstart",    handler |-> "touchStart"],
            [type |-> "touchmove",     handler |-> "touchMove"],
            [type |-> "touchend",      handler |-> "touchEnd"],
            [type |-> "touchcancel",   handler |-> "touchEnd"] >>
    [] eventType = "pinchzoom" ->
         << [type |-> "wheel",         handler |-> "wheel"],
            [type |-> "touchstart",    handler |-> "touchStart"],
            [type |-> "touchmove",     handler |-> "touchMove"],
            [type |-> "touchend",      handler |-> "touchEnd"],
            [type |-> "touchcancel",   handler |-> "touchEnd"] >>
    [] OTHER -> << >>

\* element.addEventListener for every entry of nativeListeners
RECURSIVE Subscribe(_, _, _, _)
Subscribe(d, element, r, nl) ==
  IF nl = <<>> THEN d
  ELSE Subscribe(Append(d, [element |-> element, type |-> Head(nl).type,
                            ref |-> r, handler |-> Head(nl).handler]),
                 element, r, Tail(nl))

\* The native types whose element.removeEventListener throws on this
\* platform
RemoveThrows == cfg.removeThrows

\* element.removeEventListener(type, handler, options) for one entry, inside
\* its try/catch: a call that throws leaves the subscription in place
Unsubscribe(d, element, r, n) ==
  LET Keep(e) == ~(e.element = element /\ e.type = n.type /\ e.ref = r
                   /\ e.handler = n.handler)
  IN IF n.type \in RemoveThrows THEN d ELSE SelectSeq(d, Keep)

\* A forEach that the first throwing removal ends
RECURSIVE UnsubscribeUntilThrow(_, _, _, _)
UnsubscribeUntilThrow(d, element, r, nl) ==
  IF nl = <<>> \/ Head(nl).type \in RemoveThrows THEN d
  ELSE UnsubscribeUntilThrow(Unsubscribe(d, element, r, Head(nl)), element,
                             r, Tail(nl))

RECURSIVE UnsubscribeAll(_, _, _, _)
UnsubscribeAll(d, element, r, nl) ==
  IF nl = <<>> THEN d
  ELSE UnsubscribeAll(Unsubscribe(d, element, r, Head(nl)), element, r,
                      Tail(nl))

\* The state a registration starts with (_setupGestureEvents,
\* _setupDragEvents); basic registrations keep an empty state object
InitialState(eventType, mo) ==
  CASE eventType = "longclick" -> LongClickState(mo)
    [] eventType = "doubleclick" -> DoubleClickState(mo)
    [] eventType = "swipe" -> SwipeState(mo)
    [] eventType = "fling" -> FlingState(mo)
    [] eventType \in DragTypes -> DragState(mo)
    [] eventType = "rotate" -> RotateState(mo)
    [] eventType = "pinchzoom" -> PinchZoomState(mo)
    [] OTHER -> [none |-> TRUE]

InitialGhost(eventType) ==
  CASE eventType = "longclick" -> LongClickGhost
    [] eventType = "doubleclick" -> DoubleClickGhost
    [] eventType \in {"swipe", "fling"} \cup DragTypes -> AttemptGhost
    [] OTHER -> [none |-> TRUE]

\* addEventListener past its validation and duplicate check: the new
\* listenerInfo, its native subscriptions and its Map entry
Register(W, id, element, eventType, callback, options) ==
  LET r == Len(W.objs) + 1
      nl == NativeListeners(eventType)
      info == [ element |-> element, eventType |-> eventType,
                callback |-> callback, options |-> options,
                nativeListeners |-> nl,
                state |-> InitialState(eventType, MergedOptions(options)),
                g |-> InitialGhost(eventType) ]
      hit == {i \in 1..Len(W.regs) : W.regs[i].id = id}
  IN [W EXCEPT !.objs = Append(@, info),
               !.dom = Subscribe(@, element, r, nl),
               !.regs = IF hit = {} THEN Append(@, [id |-> id, ref |-> r])
                        ELSE [@ EXCEPT ![CHOOSE i \in hit : TRUE].ref = r]]

\* A cleanup that releases the captures but leaves the pending timers
CleanupStateKeepsTimers(W, r) ==
  LET o == W.objs[r]
      s == o.state
      W1 == IF o.eventType \in DragTypes /\ s.capturedPointer # NoPointer
               /\ PointerCaptureSupported
            THEN ReleasePointerCapture(W, r, s.capturedPointer) ELSE W
  IN IF o.eventType \in {"swipe", "fling"} /\ s.pointerId # NoPointer
        /\ PointerCaptureSupported
     THEN ReleasePointerCapture(W1, r, s.pointerId) ELSE W1

\* removeEventListener, "Clean up state based on event type": the timers it
\* clears and the captures it releases
CleanupState(W, r) ==
  LET o == W.objs[r]
      s == o.state
      W1 == IF o.eventType \in DragTypes /\ s.capturedPointer # NoPointer
               /\ PointerCaptureSupported
            THEN ReleasePointerCapture(W, r, s.capturedPointer) ELSE W
      W2 == IF o.eventType = "longclick" /\ s.timerId # NoTimer
            THEN SetState(ClearTimeout(W1, s.timerId), r,
                          [s EXCEPT !.timerId = NoTimer])
            ELSE W1
      W3 == IF o.eventType \in {"swipe", "fling"} /\ s.pointerId # NoPointer
               /\ PointerCaptureSupported
            THEN ReleasePointerCapture(W2, r, s.pointerId) ELSE W2
  IN W3

\* A removal that unsubscribes and cleans up but keeps the Map entry
UnregisterNativeOnly(W, id) ==
  LET r == W.regs[RefOf(W.regs, id)].ref
      o == W.objs[r]
      W1 == [W EXCEPT !.dom = UnsubscribeAll(@, o.element, r,
                                             o.nativeListeners)]
  IN CleanupState(W1, r)

\* A removal that deletes the Map entry and leaves the native subscriptions
UnregisterMapOnly(W, id) ==
  LET r == W.regs[RefOf(W.regs, id)].ref
      Keep(e) == e.id # id
  IN [CleanupState(W, r) EXCEPT !.regs = SelectSeq(@, Keep)]

\* removeEventListener(listenerId) for a registered id
Unregister(W, id) ==
  LET r == W.regs[RefOf(W.regs, id)].ref
      o == W.objs[r]
      W1 == [W EXCEPT !.dom = UnsubscribeAll(@, o.element, r,
                                             o.nativeListeners)]
      W2 == CleanupState(W1, r)
      Keep(e) == e.id # id
  IN [W2 EXCEPT !.regs = SelectSeq(@, Keep)]

RECURSIVE UnregisterEach(_, _)
UnregisterEach(W, ids) ==
  IF ids = <<>> THEN W
  ELSE UnregisterEach(IF Head(ids) \in RegisteredIds(W.regs)
                      THEN Unregister(W, Head(ids)) ELSE W, Tail(ids))

\* The ids of all the entries, whatever their target
IdsOnAny(W, element) == [i \in 1..Len(W.regs) |-> W.regs[i].id]

\* The ids, in Map order, of the entries whose target is the element
IdsOn(W, element) ==
  LET On(e) == W.objs[e.ref].element = element
      hits == SelectSeq(W.regs, On)
  IN [i \in 1..Len(hits) |-> hits[i].id]

AllIds(W) == [i \in 1..Len(W.regs) |-> W.regs[i].id]

\* removeAllEventListeners, "forced cleanup": element.removeEventListener
\* for every handler recorded by the entries on the element, each call in
\* its try/catch (the removals with a fresh empty handler match nothing)
RECURSIVE ForcedCleanup(_, _)
ForcedCleanup(W, ids) ==
  IF ids = <<>> THEN W
  ELSE LET r == W.regs[RefOf(W.regs, Head(ids))].ref
           o == W.objs[r]
       IN ForcedCleanup([W EXCEPT !.dom = UnsubscribeAll(@, o.element, r,
                                                        o.nativeListeners)],
                        Tail(ids))

-----------------------------------------------------------------------------
(* Dispatch *)

\* The handler a native subscription runs
RunHandler(W, e, ev) ==
  LET t == W.objs[e.ref].eventType
  IN CASE e.handler = "basic" -> BasicHandleEvent(W, e.ref, ev)
       [] t = "longclick" /\ e.handler = "start" -> LongClickStart(W, e.ref, ev)
       [] t = "longclick" /\ e.handler = "end" -> LongClickEnd(W, e.ref, ev)
       [] t = "longclick" /\ e.handler = "cancel" -> LongClickCancel(W, e.ref, ev)
       [] t = "doubleclick" /\ e.handler = "start" -> DoubleClickStart(W, e.ref, ev)
       [] t = "doubleclick" /\ e.handler = "end" -> DoubleClickEnd(W, e.ref, ev)
       [] t = "doubleclick" /\ e.handler = "cancel" -> DoubleClickCancel(W, e.ref, ev)
       [] t = "swipe" /\ e.handler = "start" -> SwipeStart(W, e.ref, ev)
       [] t = "swipe" /\ e.handler = "move" -> SwipeMove(W, e.ref, ev)
       [] t = "swipe" /\ e.handler = "end" -> SwipeEnd(W, e.ref, ev)
       [] t = "swipe" /\ e.handler = "cancel" -> SwipeCancel(W, e.ref, ev)
       [] t = "fling" /\ e.handler = "start" -> FlingStart(W, e.ref, ev)
       [] t = "fling" /\ e.handler = "move" -> FlingMove(W, e.ref, ev)
       [] t = "fling" /\ e.handler = "end" -> FlingEnd(W, e.ref, ev)
       [] t = "fling" /\ e.handler = "cancel" -> FlingCancel(W, e.ref, ev)
       [] t = "dragstart" /\ e.handler = "start" -> DragStartOnly(W, e.ref, ev)
       [] t = "drag" /\ e.handler = "start" -> DragStart(W, e.ref, ev)
       [] t = "drag" /\ e.handler = "move" -> DragMove(W, e.ref, ev)
       [] t = "drag" /\ e.handler = "end" -> DragEnd(W, e.ref, ev)
       [] t = "drag" /\ e.handler = "cancel" -> DragCancel(W, e.ref, ev)
       [] t = "dragend" /\ e.handler = "end" -> DragEndOnly(W, e.ref, ev)
       [] t = "rotate" /\ e.handler = "wheel" -> RotateWheel(W, e.ref, ev)
       [] t = "rotate" /\ e.handler = "penRotation" -> RotatePen(W, e.ref, ev)
       [] t = "rotate" /\ e.handler = "penEnd" -> RotatePenEnd(W, e.ref, ev)
       [] t = "rotate" /\ e.handler = "touchStart" ->
            RotateTouchStart(W, e.ref, ev)
       [] t = "rotate" /\ e.handler = "touchMove" ->
            RotateTouchMove(W, e.ref, ev)
       [] t = "pinchzoom" /\ e.handler = "wheel" -> PinchWheel(W, e.ref, ev)
       [] t = "pinchzoom" /\ e.handler = "touchStart" ->
            PinchTouchStart(W, e.ref, ev)
       [] t = "pinchzoom" /\ e.handler = "touchMove" ->
            PinchTouchMove(W, e.ref, ev)
       [] e.handler = "touchEnd" -> TouchEnd(W, e.ref, ev)
       [] OTHER -> W

\* The callback a timer runs
RunTimer(W, h) ==
  CASE h.kind = "longclick" -> LongClickTimer(W, h)
    [] h.kind = "longclickGrace" -> LongClickGraceTimer(W, h)
    [] h.kind = "longclickCancelReset" -> LongClickCancelResetTimer(W, h)
    [] h.kind = "doubleclickReset" -> DoubleClickResetTimer(W, h)
    [] h.kind = "doubleclickTimeout" -> DoubleClickTimeoutTimer(W, h)
    [] h.kind = "swipeReset" -> SwipeResetTimer(W, h)
    [] h.kind = "flingReset" -> FlingResetTimer(W, h)
    [] OTHER -> W

\* The element dispatches a native event to its subscriptions in the order
\* they were added (the subscriptions present when the dispatch begins)
RECURSIVE Dispatch(_, _, _)
Dispatch(W, entries, ev) ==
  IF entries = <<>> THEN W
  ELSE Dispatch(RunHandler(W, Head(entries), ev), Tail(entries), ev)

Subscribed(element, type) ==
  LET On(e) == e.element = element /\ e.type = type
  IN SelectSeq(dom, On)

-----------------------------------------------------------------------------
(* Universes: what the application registers and what the input source     *)
(* delivers in one run.                                                    *)

\* A run with one listener: the application makes the calls that have an
\* effect, the input source delivers at most maxEvents raw events.
Universe(name, types, options, positions, pointers, maxEvents, maxTime) ==
  [ name |-> name, elements |-> {"e1"}, callbacks |-> {"f"},
    types |-> types, options |-> options, positions |-> positions,
    pointers |-> pointers, stamps |-> {1}, maxRegs |-> MaxRegs,
    maxEvents |-> maxEvents, maxTime |-> maxTime, idleCalls |-> FALSE,
    pointerCapture |-> TRUE, captureThrows |-> FALSE, removeThrows |-> {},
    anyInput |-> FALSE, only |-> << >>, together |-> {} ]

ShortDelay == [NoOptions EXCEPT !.longClickDelay = 2 * Step]

LongClickUniverse ==
  Universe("longclick", {"longclick"}, {NoOptions, ShortDelay}, {<<10, 20>>},
           Pointers, MaxEvents, MaxTime)

DoubleClickUniverse ==
  Universe("doubleclick", {"doubleclick"}, {NoOptions},
           {<<10, 20>>, <<30, 20>>}, Pointers, MaxEvents + 1, MaxTime)

\* Positions along the x axis, and one off it by as much down as across
SwipeUniverse ==
  Universe("swipe", {"swipe"}, {NoOptions},
           {<<0, 0>>, <<100, 0>>, <<100, 100>>}, Pointers,
           MaxEvents - 1, MaxTime - Step)

\* A threshold that one of the displacements meets exactly, one misses and
\* one exceeds; the default timeout is met exactly after three steps
SwipeAt == [NoOptions EXCEPT !.swipeThreshold = 100]

SwipeRuleUniverse ==
  Universe("swiperule", {"swipe"}, {SwipeAt},
           {<<0, 0>>, <<60, 0>>, <<100, 0>>}, Pointers, MaxEvents - 1,
           MaxTime - Step)

MouseOnly == [ShortDelay EXCEPT !.mouseOnly = TRUE]
TouchOnly == [ShortDelay EXCEPT !.touchOnly = TRUE]
PenOnly == [ShortDelay EXCEPT !.penOnly = TRUE]

\* One basic listener with a device filter (or a longclick listener), fed
\* by a mouse (pointer 1) and a finger (pointer 2)
FilterUniverse ==
  Universe("filter", BasicTypes \cup {"longclick"},
           {MouseOnly, TouchOnly, PenOnly}, {<<10, 20>>}, Pointers,
           MaxEvents - 2, 2 * Step)
  @@ [ pointerTypes |-> (1 :> "mouse") @@ (2 :> "touch") ]

\* Thresholds at and just above the speed of 100 px in 100 ms
FlingAt == [NoOptions EXCEPT !.flingMinVelocity = 1000]
FlingAbove == [NoOptions EXCEPT !.flingMinVelocity = 1010]

\* One stream long enough to overflow the sample window (a start and more
\* than MAX_VELOCITY_POINTS moves), and time for the reset timer to run
FlingUniverse ==
  Universe("fling", {"fling"}, {FlingAt, FlingAbove},
           {<<0, 0>>, <<100, 0>>}, {1}, MaxEvents + 2, 3 * Step)

RangeX == [NoOptions EXCEPT !.rangeX = <<-50, 50>>]
RangeXY == [NoOptions EXCEPT !.rangeX = <<-50, 50>>, !.rangeY = <<-20, 20>>]

NoKeep == [RangeX EXCEPT !.keepState = FALSE]

\* A draggable element: a drag listener with or without ranges, or a
\* longclick listener (press and hold to pick the element up).
DragUniverse ==
  Universe("drag", {"drag", "longclick"}, {RangeX, RangeXY, ShortDelay},
           {<<0, 0>>, <<80, 30>>, <<30, -30>>}, {1}, MaxEvents, 2 * Step)

\* Two drag sessions on a draggable element: a drag listener (with ranges,
\* keeping its offset between sessions or not) and then perhaps a dragend
\* listener, or a longclick listener alone.
DragSessionUniverse ==
  [ Universe("dragsession", {"drag", "dragend", "longclick"},
             {RangeXY, NoKeep}, {<<0, 0>>, <<80, 30>>}, {1}, MaxEvents + 1,
             2 * Step)
    EXCEPT !.maxRegs = MaxRegsReg,
           !.only = ("dragend" :> {NoOptions}) @@ ("longclick" :> {ShortDelay}),
           !.together = {<<"drag", "dragend">>, <<"longclick">>} ]

\* A run with several listeners on one element: the application makes any
\* call, with or without effect, also with a type that is not valid.
RegistryUniverse ==
  [ name |-> "registry", elements |-> {"e1"}, callbacks |-> {"f", "g"},
    types |-> {"longclick", "dragstart", "drag", "hover"},
    options |-> {ShortDelay}, positions |-> {<<10, 20>>}, pointers |-> {1},
    stamps |-> {1}, maxRegs |-> MaxRegsReg, maxEvents |-> MaxEvents - 2,
    maxTime |-> 2 * Step, idleCalls |-> TRUE, pointerCapture |-> TRUE,
    captureThrows |-> FALSE, removeThrows |-> {}, anyInput |-> FALSE,
    only |-> << >>, together |-> {} ]

\* Two listeners of one gesture type, on two elements or with two callbacks
\* on one element, and two streams
PairUniverse ==
  [ name |-> "pair", elements |-> {"e1", "e2"}, callbacks |-> {"f", "g"},
    types |-> {"longclick", "drag"}, options |-> {ShortDelay},
    positions |-> {<<10, 20>>}, pointers |-> Pointers, stamps |-> {1},
    maxRegs |-> MaxRegsReg, maxEvents |-> MaxEvents - 2,
    maxTime |-> 2 * Step, idleCalls |-> FALSE, pointerCapture |-> TRUE,
    captureThrows |-> FALSE, removeThrows |-> {}, anyInput |-> FALSE,
    only |-> << >>,
    together |-> {<<"longclick", "longclick">>, <<"drag", "drag">>} ]

NoCapture == [ShortDelay EXCEPT !.usePointerCapture = "false"]

\* One listener that asks for capture or declines it, on a platform where
\* capture works, is missing, or throws on every call
CaptureUniverses ==
  LET u == Universe("capture", {"longclick", "swipe", "drag"},
                    {ShortDelay, NoCapture}, {<<0, 0>>, <<80, 30>>},
                    Pointers, MaxEvents - 1, 2 * Step)
  IN { [u EXCEPT !.pointerCapture = m[1], !.captureThrows = m[2]] :
         m \in {<<TRUE, FALSE>>, <<FALSE, FALSE>>, <<TRUE, TRUE>>} }

\* Two listeners on an element, every call of the public API with or without
\* effect, raw events with or without a subscription to receive them, on a
\* platform whose element.removeEventListener works or throws for one
\* native type
ApiUniverses ==
  LET u == [ PairUniverse EXCEPT
               !.name = "api", !.elements = {"e1"}, !.callbacks = {"f"},
               !.types = {"longclick", "start", "hover"}, !.pointers = {1},
               !.maxEvents = MaxEvents - 3, !.idleCalls = TRUE,
               !.anyInput = TRUE, !.together = {} ]
  IN { [u EXCEPT !.removeThrows = s] : s \in {{}, {"pointerup"}} }

Ctrl == [ctrlKey |-> TRUE, altKey |-> FALSE]
CtrlAlt == [ctrlKey |-> TRUE, altKey |-> TRUE]

\* One listener fed by a wheel, a pen and a touch screen: what the
\* application registers and what the three sources deliver
MultiUniverse(name, types, options, vectors, modifiers, twists, maxEvents) ==
  Universe(name, types, options, vectors, {0, 1}, maxEvents, 0)
  @@ [ modifiers |-> modifiers, pens |-> {1}, twists |-> twists ]

\* Two fingers turning through the half turn, a degree at a time or more
RotateTouchUniverse ==
  MultiUniverse("rotatetouch", {"rotate"}, {NoOptions},
                {<<100, 0>>, <<57, 1>>, <<58, 1>>, <<0, 100>>, <<-100, 2>>,
                 <<-100, 0>>, <<-100, -2>>, <<20, 0>>},
                {Ctrl}, {90}, MaxEvents)

\* The wheel turning by the default step or by 0.3 degrees, and the pen
RotateWheelUniverse ==
  MultiUniverse("rotatewheel", {"rotate"},
                {NoOptions, [NoOptions EXCEPT !.rotateStepDeg = ThreeTenths]},
                {<<100, 0>>}, {Ctrl}, {0, 350}, MaxEvents + 1)

\* Fingers 30, 60 and 120 px apart or on one spot, and the wheel
PinchUniverse ==
  MultiUniverse("pinch", {"pinchzoom"}, {NoOptions},
                {<<0, 0>>, <<30, 0>>, <<60, 0>>, <<120, 0>>},
                {CtrlAlt}, {90}, MaxEvents)

\* The options the application passes with a type: those the universe
\* reserves for the type, else any of the universe's
OptionsOf(t) == IF t \in DOMAIN cfg.only THEN cfg.only[t] ELSE cfg.options

\* The application registers type t after the types it registered before
\* when the universe has a registration order that begins like that (any
\* type when the universe has no orders)
\* A swipe, a fling, or a drag with a dragend listener, whose one callback
\* returns normally in one run and throws in the other; a stream that moves
\* far and fast enough, ends, and starts again
ThrowUniverses ==
  LET u == [ Universe("throw", {"swipe", "fling", "drag", "dragend"},
                      {NoOptions}, {<<0, 0>>, <<100, 0>>}, {1},
                      MaxEvents - 1, 3 * Step)
             EXCEPT !.maxRegs = MaxRegsReg,
                    !.together = {<<"swipe">>, <<"fling">>,
                                  <<"drag", "dragend">>} ]
  IN { u @@ [throwing |-> s] : s \in {{}, {"f"}} }

Together(t) ==
  \/ cfg.together = {}
  \/ \E ts \in cfg.together :
       /\ Len(objs) < Len(ts)
       /\ ts[Len(objs) + 1] = t
       /\ \A i \in 1..Len(objs) : ts[i] = objs[i].eventType

\* Ids the application may hold (issued now or earlier, or never issued)
IdSpace == {<<st, n>> : st \in cfg.stamps, n \in 0..(cfg.maxRegs - 1)}

NoOp == [ kind |-> "init", element |-> "", type |-> "", callback |-> "",
          pid |-> NoPointer, pos |-> <<0, 0>>, id |-> <<>>, ret |-> <<>>,
          dup |-> FALSE, threw |-> FALSE ]

InitWith(u) ==
  /\ cfg = u
  /\ now = T0
  /\ events = 0
  /\ listenerCounter = 0
  /\ eventListeners = <<>>
  /\ objs = <<>>
  /\ dom = <<>>
  /\ timers = <<>>
  /\ captured = {}
  /\ down = {}
  /\ op = NoOp
  /\ out = <<>>
  /\ capLog = <<>>

\* A world becomes the next state
Commit(W) ==
  /\ objs' = W.objs
  /\ timers' = W.timers
  /\ captured' = W.captured
  /\ eventListeners' = W.regs
  /\ dom' = W.dom
  /\ out' = W.out
  /\ capLog' = W.capLog

-----------------------------------------------------------------------------
(* The public API *)

\* An argument the application leaves out (undefined, null or '')
Missing == ""

\* What the application passes for an argument drawn from S: a value of S,
\* or nothing at all in a universe that takes any input
ArgsOf(S) == IF cfg.anyInput THEN S \cup {Missing} ELSE S

AddEventListener(element, eventType, callback, options, stamp) ==
  LET existing == FindExistingListener(eventListeners, objs, element,
                                       eventType, callback)
      base == [NoOp EXCEPT !.kind = "add", !.element = element,
                           !.type = eventType, !.callback = callback]
  IN IF element = Missing \/ eventType = Missing \/ callback = Missing
     THEN /\ cfg.idleCalls
          /\ op' = [base EXCEPT !.threw = TRUE]
          /\ out' = <<>> /\ capLog' = <<>>
          /\ UNCHANGED << cfg, now, events, listenerCounter, eventListeners,
                          objs, dom, timers, captured, down >>
     ELSE IF eventType \notin validEventTypes
     THEN /\ cfg.idleCalls
          /\ op' = [base EXCEPT !.threw = TRUE]
          /\ out' = <<>> /\ capLog' = <<>>
          /\ UNCHANGED << cfg, now, events, listenerCounter, eventListeners,
                          objs, dom, timers, captured, down >>
     ELSE IF existing # <<>>
     THEN /\ cfg.idleCalls
          /\ op' = [base EXCEPT !.ret = existing, !.id = existing,
                                !.dup = TRUE]
          /\ out' = <<>> /\ capLog' = <<>>
          /\ UNCHANGED << cfg, now, events, listenerCounter, eventListeners,
                          objs, dom, timers, captured, down >>
     ELSE LET id == GenerateListenerId(stamp, listenerCounter)
          IN /\ Len(objs) < cfg.maxRegs
             /\ listenerCounter' = listenerCounter + 1
             /\ Commit(Register(World, id, element, eventType, callback,
                                options))
             /\ op' = [base EXCEPT !.ret = id, !.id = id]
             /\ UNCHANGED << cfg, now, events, down >>

RemoveEventListener(id) ==
  IF id \notin RegisteredIds(eventListeners)
  THEN /\ cfg.idleCalls
       /\ op' = [NoOp EXCEPT !.kind = "remove", !.id = id, !.ret = FALSE]
       /\ out' = <<>> /\ capLog' = <<>>
       /\ UNCHANGED << cfg, now, events, listenerCounter, eventListeners,
                       objs, dom, timers, captured, down >>
  ELSE /\ Commit(Unregister(World, id))
       /\ op' = [NoOp EXCEPT !.kind = "remove", !.id = id, !.ret = TRUE]
       /\ UNCHANGED << cfg, now, events, listenerCounter, down >>

RemoveAllEventListeners(element) ==
  LET ids == IdsOn(World, element)
  IN /\ cfg.idleCalls \/ ids # <<>>
     /\ Commit(UnregisterEach(ForcedCleanup(World, ids), ids))
     /\ op' = [NoOp EXCEPT !.kind = "removeAll", !.element = element,
                           !.ret = Len(ids)]
     /\ UNCHANGED << cfg, now, events, listenerCounter, down >>

Dispose ==
  LET W == UnregisterEach(World, AllIds(World))
  IN /\ cfg.idleCalls \/ eventListeners # <<>>
     /\ Commit([W EXCEPT !.regs = <<>>])
     /\ listenerCounter' = 0
     /\ op' = [NoOp EXCEPT !.kind = "dispose"]
     /\ UNCHANGED << cfg, now, events, down >>

-----------------------------------------------------------------------------
(* The raw input source and the timers.  The input source is observed from  *)
(* the first registration on; pointer ids are named in the order of their  *)
(* first press (the first stream ever is pointer 1).                       *)

\* The device family of a pointer: the mouse, unless the universe says
\* which device each pointer belongs to
PointerType(p) ==
  IF "pointerTypes" \in DOMAIN cfg THEN cfg.pointerTypes[p] ELSE "mouse"

Event(p, pos) ==
  [pointerId |-> p, clientX |-> pos[1], clientY |-> pos[2],
   pointerType |-> PointerType(p)]

\* The histories of the listeners on the element note the raw end or cancel
\* of pointer p: a longclick history closes its armed press when the pointer
\* is the owner and the delay is not over; a doubleclick history marks its
\* last tap ended; an attempt history closes the owner's attempt.
NoteClose(os, element, p, pos, ended) ==
  [r \in 1..Len(os) |->
     IF os[r].element # element THEN os[r]
     ELSE IF /\ os[r].eventType = "longclick"
             /\ os[r].g.owner = p
             /\ now <= os[r].g.start
                         + MergedOptions(os[r].options).longClickDelay
     THEN [os[r] EXCEPT !.g.closed = TRUE]
     ELSE IF os[r].eventType = "doubleclick" /\ os[r].g.lastPid = p
     THEN [os[r] EXCEPT !.g.lastEnded = TRUE, !.g.lastCancelled = ~ended]
     ELSE IF /\ os[r].eventType \in {"swipe", "fling"} \cup DragTypes
             /\ os[r].g.open /\ os[r].g.owner = p
     THEN [os[r] EXCEPT !.g.open = FALSE, !.g.endX = pos[1],
                        !.g.endY = pos[2], !.g.endTime = now,
                        !.g.ended = ended]
     ELSE os[r]]

\* The fling histories on the element note a raw sample of pointer p: a
\* start begins the pointer's trail, a move extends it, an end or cancel
\* (no position) drops it.
NoteSample(os, element, p, pos, kind) ==
  LET Others(e) == e.p # p
  IN [r \in 1..Len(os) |->
        IF os[r].element # element \/ os[r].eventType # "fling" THEN os[r]
        ELSE [os[r] EXCEPT !.g.trail =
                IF kind = "close" THEN SelectSeq(@, Others)
                ELSE Append(IF kind = "start" THEN SelectSeq(@, Others) ELSE @,
                            [p |-> p, x |-> pos[1], y |-> pos[2],
                             timestamp |-> now])]]

\* The input source is observed while a native subscription exists; a
\* universe that takes any input goes on observing it after the
\* subscriptions are gone
Delivering == dom # <<>> \/ (cfg.anyInput /\ objs # <<>>)

RawStart(element, p, pos) ==
  /\ events < cfg.maxEvents
  /\ Delivering
  /\ p = 1 \/ events > 0
  /\ \A d \in down : d[1] # p
  /\ LET W == Dispatch(World, Subscribed(element, "pointerdown"),
                       Event(p, pos))
     IN Commit([W EXCEPT !.objs = NoteSample(@, element, p, pos, "start")])
  /\ down' = down \cup {<<p, element>>}
  /\ events' = events + 1
  /\ op' = [NoOp EXCEPT !.kind = "start", !.element = element, !.pid = p,
                        !.pos = pos]
  /\ UNCHANGED << cfg, now, listenerCounter >>

RawMove(element, p, pos) ==
  /\ events < cfg.maxEvents
  /\ Delivering
  /\ <<p, element>> \in down
  /\ LET W == Dispatch(World, Subscribed(element, "pointermove"),
                       Event(p, pos))
     IN Commit([W EXCEPT !.objs = NoteSample(@, element, p, pos, "move")])
  /\ events' = events + 1
  /\ op' = [NoOp EXCEPT !.kind = "move", !.element = element, !.pid = p,
                        !.pos = pos]
  /\ UNCHANGED << cfg, now, listenerCounter, down >>

RawEnd(element, p, pos) ==
  /\ events < cfg.maxEvents
  /\ Delivering
  /\ <<p, element>> \in down
  /\ LET W == Dispatch(World, Subscribed(element, "pointerup"), Event(p, pos))
     IN Commit([W EXCEPT !.objs =
                  NoteSample(NoteClose(@, element, p, pos, TRUE),
                             element, p, pos, "close")])
  /\ down' = down \ {<<p, element>>}
  /\ events' = events + 1
  /\ op' = [NoOp EXCEPT !.kind = "end", !.element = element, !.pid = p,
                        !.pos = pos]
  /\ UNCHANGED << cfg, now, listenerCounter >>

\* pointercancel, or pointerleave: the stream is over for the element
RawCancel(element, p, type) ==
  /\ events < cfg.maxEvents
  /\ Delivering
  /\ <<p, element>> \in down
  /\ LET W == Dispatch(World, Subscribed(element, type),
                       Event(p, <<0, 0>>))
     IN Commit([W EXCEPT !.objs =
                  NoteSample(NoteClose(@, element, p, <<0, 0>>, FALSE),
                             element, p, <<0, 0>>, "close")])
  /\ down' = down \ {<<p, element>>}
  /\ events' = events + 1
  /\ op' = [NoOp EXCEPT !.kind = "cancel", !.element = element, !.pid = p]
  /\ UNCHANGED << cfg, now, listenerCounter >>

Due == {i \in 1..Len(timers) : timers[i].due <= now}

\* The first pending timer that is due runs
TimerFire ==
  /\ Due # {}
  /\ LET i == CHOOSE i \in Due : \A j \in Due : i <= j
         h == timers[i]
         W == [World EXCEPT !.timers = RemoveFirst(@, h)]
     IN /\ Commit(RunTimer(W, h))
        /\ op' = [NoOp EXCEPT !.kind = "timer", !.type = h.kind,
                              !.pid = h.pid]
  /\ UNCHANGED << cfg, now, events, listenerCounter, down >>

NextDue ==
  IF timers = <<>> THEN now + Step
  ELSE LET i == CHOOSE i \in 1..Len(timers) :
                   \A j \in 1..Len(timers) : timers[i].due <= timers[j].due
       IN timers[i].due

\* Time passes: to the next timer, by Step at most.  The clock is observed
\* only while a registration or a timer exists.
Tick ==
  /\ Due = {}
  /\ now < T0 + cfg.maxTime
  /\ eventListeners # <<>> \/ timers # <<>>
  /\ now' = Min(now + Step, NextDue)
  /\ op' = [NoOp EXCEPT !.kind = "tick"]
  /\ out' = <<>> /\ capLog' = <<>>
  /\ UNCHANGED << cfg, events, listenerCounter, eventListeners, objs, dom,
                  timers, captured, down >>

-----------------------------------------------------------------------------
(* The wheel, the pen and the touch screen *)

\* A wheel event with its modifier keys and the sign of its deltaY
WheelEvent(m, deltaY) ==
  [type |-> "wheel", ctrlKey |-> m.ctrlKey, altKey |-> m.altKey,
   deltaY |-> deltaY, clientX |-> 0, clientY |-> 0]

RawWheel(element, m, deltaY) ==
  /\ events < cfg.maxEvents
  /\ dom # <<>>
  /\ Commit(Dispatch(World, Subscribed(element, "wheel"),
                     WheelEvent(m, deltaY)))
  /\ events' = events + 1
  /\ op' = [NoOp EXCEPT !.kind = "wheel", !.element = element,
                        !.type = IF m.ctrlKey /\ ~m.altKey THEN "ctrl"
                                 ELSE IF m.ctrlKey THEN "ctrl+alt" ELSE "",
                        !.pos = <<0, deltaY>>]
  /\ UNCHANGED << cfg, now, listenerCounter, down >>

\* A pointer event of an upright pen turned to `twist` degrees
PenEvent(p, twist) ==
  [pointerId |-> p, clientX |-> 0, clientY |-> 0, pointerType |-> "pen",
   twist |-> twist]

\* The pen moves over the element (pointermove)
RawPenMove(element, p, twist) ==
  /\ events < cfg.maxEvents
  /\ dom # <<>>
  /\ Commit(Dispatch(World, Subscribed(element, "pointermove"),
                     PenEvent(p, twist)))
  /\ events' = events + 1
  /\ op' = [NoOp EXCEPT !.kind = "pen", !.element = element, !.pid = p,
                        !.pos = <<twist, 0>>]
  /\ UNCHANGED << cfg, now, listenerCounter, down >>

\* The pen is lifted (pointerup)
RawPenUp(element, p) ==
  /\ events < cfg.maxEvents
  /\ dom # <<>>
  /\ Commit(Dispatch(World, Subscribed(element, "pointerup"),
                     PenEvent(p, 0)))
  /\ events' = events + 1
  /\ op' = [NoOp EXCEPT !.kind = "penup", !.element = element, !.pid = p]
  /\ UNCHANGED << cfg, now, listenerCounter, down >>

\* The identifiers of the touches on an element
TouchesOn(d, element) == {t[1] : t \in {x \in d : x[2] = element}}

\* The touches on an element as a TouchList, by identifier: the touch with
\* the lowest identifier rests at the origin, the others are at v
RECURSIVE TouchList(_, _, _)
TouchList(ids, lowest, v) ==
  IF ids = {} THEN << >>
  ELSE LET id == CHOOSE i \in ids : \A j \in ids : i <= j
       IN << [identifier |-> id,
              clientX |-> IF id = lowest THEN 0 ELSE v[1],
              clientY |-> IF id = lowest THEN 0 ELSE v[2]] >>
          \o TouchList(ids \ {id}, lowest, v)

Touches(ids, v) ==
  IF ids = {} THEN << >>
  ELSE TouchList(ids, CHOOSE i \in ids : \A j \in ids : i <= j, v)

Reverse(seq) == [i \in 1..Len(seq) |-> seq[Len(seq) + 1 - i]]

TouchEvent(type, touches, changed) ==
  [type |-> type, touches |-> touches, changedTouches |-> changed]

\* A finger comes down on the element at v
RawTouchStart(element, id, v) ==
  /\ events < cfg.maxEvents
  /\ dom # <<>>
  /\ id \notin TouchesOn(down, element)
  /\ LET ids == TouchesOn(down, element) \cup {id}
         touches == Touches(ids, v)
         IsNew(t) == t.identifier = id
     IN /\ Commit(Dispatch(World, Subscribed(element, "touchstart"),
                           TouchEvent("touchstart", touches,
                                      SelectSeq(touches, IsNew))))
        /\ op' = [NoOp EXCEPT !.kind = "touchstart", !.element = element,
                              !.pid = touches[1].identifier, !.pos = v]
  /\ down' = down \cup {<<id, element>>}
  /\ events' = events + 1
  /\ UNCHANGED << cfg, now, listenerCounter >>

\* The fingers on the element move: the platform lists them in either order
RawTouchMove(element, v, swap) ==
  /\ events < cfg.maxEvents
  /\ dom # <<>>
  /\ TouchesOn(down, element) # {}
  /\ LET list == Touches(TouchesOn(down, element), v)
         touches == IF swap THEN Reverse(list) ELSE list
     IN /\ Commit(Dispatch(World, Subscribed(element, "touchmove"),
                           TouchEvent("touchmove", touches, touches)))
        /\ op' = [NoOp EXCEPT !.kind = "touchmove", !.element = element,
                              !.pid = touches[1].identifier, !.pos = v]
  /\ events' = events + 1
  /\ UNCHANGED << cfg, now, listenerCounter, down >>

\* A finger leaves the element (touchend) or is taken away (touchcancel)
RawTouchEnd(element, id, type) ==
  /\ events < cfg.maxEvents
  /\ dom # <<>>
  /\ id \in TouchesOn(down, element)
  /\ LET left == Touches(TouchesOn(down, element) \ {id}, <<0, 0>>)
         gone == << [identifier |-> id, clientX |-> 0, clientY |-> 0] >>
     IN Commit(Dispatch(World, Subscribed(element, type),
                        TouchEvent(type, left, gone)))
  /\ down' = down \ {<<id, element>>}
  /\ events' = events + 1
  /\ op' = [NoOp EXCEPT !.kind = "touchend", !.element = element, !.pid = id]
  /\ UNCHANGED << cfg, now, listenerCounter >>

Next ==
  \/ \E e \in ArgsOf(cfg.elements), t \in ArgsOf(cfg.types),
        c \in ArgsOf(cfg.callbacks), st \in cfg.stamps :
       \E o \in OptionsOf(t) :
         Together(t) /\ AddEventListener(e, t, c, o, st)
  \/ \E id \in IdSpace : RemoveEventListener(id)
  \/ \E e \in cfg.elements : RemoveAllEventListeners(e)
  \/ Dispose
  \/ \E e \in cfg.elements, p \in cfg.pointers, pos \in cfg.positions :
       RawStart(e, p, pos)
  \/ \E e \in cfg.elements, p \in cfg.pointers, pos \in cfg.positions :
       RawMove(e, p, pos)
  \/ \E e \in cfg.elements, p \in cfg.pointers, pos \in cfg.positions :
       RawEnd(e, p, pos)
  \/ \E e \in cfg.elements, p \in cfg.pointers,
        t \in {"pointercancel", "pointerleave"} : RawCancel(e, p, t)
  \/ TimerFire
  \/ Tick

\* The engine with a wheel, a pen and a touch screen as its input
NextMulti ==
  \/ \E e \in ArgsOf(cfg.elements), t \in ArgsOf(cfg.types),
        c \in ArgsOf(cfg.callbacks), st \in cfg.stamps :
       \E o \in OptionsOf(t) :
         Together(t) /\ AddEventListener(e, t, c, o, st)
  \/ \E e \in cfg.elements, m \in cfg.modifiers, d \in {-100, 100} :
       RawWheel(e, m, d)
  \/ \E e \in cfg.elements, p \in cfg.pens, tw \in cfg.twists :
       RawPenMove(e, p, tw)
  \/ \E e \in cfg.elements, p \in cfg.pens : RawPenUp(e, p)
  \/ \E e \in cfg.elements, id \in cfg.pointers, v \in cfg.positions :
       RawTouchStart(e, id, v)
  \/ \E e \in cfg.elements, v \in cfg.positions, swap \in BOOLEAN :
       RawTouchMove(e, v, swap)
  \/ \E e \in cfg.elements, id \in cfg.pointers,
        t \in {"touchend", "touchcancel"} : RawTouchEnd(e, id, t)

InitLongClick == InitWith(LongClickUniverse)
InitDoubleClick == InitWith(DoubleClickUniverse)
InitSwipe == InitWith(SwipeUniverse)
InitFling == InitWith(FlingUniverse)
InitDrag == InitWith(DragUniverse)
InitRegistry == InitWith(RegistryUniverse)
InitDragSession == InitWith(DragSessionUniverse)
InitPair == InitWith(PairUniverse)
InitCapture == \E u \in CaptureUniverses : InitWith(u)
InitRotateTouch == InitWith(RotateTouchUniverse)
InitRotateWheel == InitWith(RotateWheelUniverse)
InitPinch == InitWith(PinchUniverse)
InitApi == \E u \in ApiUniverses : InitWith(u)
InitThrow == \E u \in ThrowUniverses : InitWith(u)
InitSwipeRule == InitWith(SwipeRuleUniverse)
InitFilter == InitWith(FilterUniverse)

SpecLongClick == InitLongClick /\ [][Next]_vars
SpecDoubleClick == InitDoubleClick /\ [][Next]_vars
SpecSwipe == InitSwipe /\ [][Next]_vars
SpecFling == InitFling /\ [][Next]_vars
SpecDrag == InitDrag /\ [][Next]_vars
SpecRegistry == InitRegistry /\ [][Next]_vars
SpecDragSession == InitDragSession /\ [][Next]_vars
SpecPair == InitPair /\ [][Next]_vars
SpecCapture == InitCapture /\ [][Next]_vars
SpecRotateTouch == InitRotateTouch /\ [][NextMulti]_vars
SpecRotateWheel == InitRotateWheel /\ [][NextMulti]_vars
SpecPinch == InitPinch /\ [][NextMulti]_vars
SpecApi == InitApi /\ [][Next]_vars
SpecThrow == InitThrow /\ [][Next]_vars
SpecSwipeRule == InitSwipeRule /\ [][Next]_vars
SpecFilter == InitFilter /\ [][Next]_vars

-----------------------------------------------------------------------------
(* Properties *)

Registered(r) == \E i \in 1..Len(eventListeners) : eventListeners[i].ref = r

Listeners(type) ==
  {r \in 1..Len(objs) : objs[r].eventType = type /\ Registered(r)}

\* The registrations of a triple, and the id of a registered listener
RegistrationsOf(element, eventType, callback) ==
  {r \in 1..Len(objs) :
     /\ Registered(r)
     /\ objs[r].element = element
     /\ objs[r].eventType = eventType
     /\ objs[r].callback = callback}

IdOf(r) ==
  eventListeners[CHOOSE i \in 1..Len(eventListeners) :
                   eventListeners[i].ref = r].id

AtMostOnePerTriple ==
  \A r1, r2 \in 1..Len(objs) :
    ( /\ Registered(r1) /\ Registered(r2)
      /\ objs[r1].element = objs[r2].element
      /\ objs[r1].eventType = objs[r2].eventType
      /\ objs[r1].callback = objs[r2].callback ) => r1 = r2

\* C1: addEventListener with a triple that is registered returns the id of
\* that registration and changes neither the registry (the listener count)
\* nor the native subscriptions; a triple never has two registrations.
C1_IdempotentRegistration ==
  [][/\ \A r \in RegistrationsOf(op'.element, op'.type, op'.callback) :
          op'.kind = "add" =>
            /\ ~op'.threw
            /\ op'.ret = IdOf(r)
            /\ eventListeners' = eventListeners
            /\ dom' = dom
     /\ AtMostOnePerTriple']_vars

\* C1 witness: a registered triple was just added again, after removals
C1_Witness ==
  /\ op.kind = "add" /\ op.dup
  /\ RegistrationsOf(op.element, op.type, op.callback) # {}
  /\ Len(objs) > Len(eventListeners)

\* C2: every callback invocation belongs to a listener that is registered:
\* once removeEventListener(id) has returned, no raw event, timer or
\* registry lookup of another listener invokes the callback of that
\* registration.
C2_TeardownCompleteness ==
  \A i \in 1..Len(out) : Registered(out[i].ref)

\* C2 witness: a dragstart listener was removed, and a raw start has just
\* made the drag listener left on the element run its registry lookup
C2_Witness ==
  /\ op.kind = "start"
  /\ \E r \in 1..Len(objs) : objs[r].eventType = "drag" /\ Registered(r)
  /\ \E r \in 1..Len(objs) :
       /\ ~Registered(r) /\ objs[r].eventType = "dragstart"
       /\ objs[r].element = op.element

DelayOf(r) == MergedOptions(objs[r].options).longClickDelay

ArmPending(r) ==
  \E i \in 1..Len(timers) : timers[i].lid = r /\ timers[i].kind = "longclick"

\* The armed press of listener r was held through its whole delay, and the
\* delay is over
HeldThrough(r) ==
  /\ objs[r].g.start > 0
  /\ ~objs[r].g.closed
  /\ \/ now > objs[r].g.start + DelayOf(r)
     \/ now = objs[r].g.start + DelayOf(r) /\ ~ArmPending(r)

\* C3: every accepted start of a longclick listener that is not followed by
\* the end or cancel of its stream within longClickDelay yields exactly one
\* LongClick, delivered at start + longClickDelay with duration =
\* longClickDelay, whatever presses, releases and cancels came before.
C3_LongClickFires ==
  \A r \in Listeners("longclick") :
    HeldThrough(r) =>
      /\ objs[r].g.fired = 1
      /\ objs[r].g.firedAt = objs[r].g.start + DelayOf(r)
      /\ objs[r].g.duration = DelayOf(r)

\* C4: a press whose end or cancel was handled before longClickDelay elapsed
\* never gets a LongClick: no LongClick delivered in any step belongs to
\* such a press.
C4_SilentOnRegularClick ==
  \A i \in 1..Len(out) :
    out[i].type = "longclick" =>
      <<out[i].data.pressStart, out[i].pointerId>>
        \notin objs[out[i].ref].g.early

\* C4 witness: a press was released early and its deadline has passed
C4_Witness ==
  \E r \in Listeners("longclick") :
    \E k \in objs[r].g.early : now >= k[1] + DelayOf(r) /\ ~ArmPending(r)

\* Callbacks of listener r for events of the given type, among the
\* invocations o of one step
Emitted(o, r, type) ==
  {i \in 1..Len(o) : o[i].ref = r /\ o[i].type = type}

\* The next step hands a raw start on its element to listener r
StartStep(r) ==
  /\ op'.kind = "start"
  /\ op'.element = objs[r].element

\* Listener r has seen a whole tap (start, end) before the start at hand
TapBefore(r) == objs[r].g.lastStart > 0 /\ objs[r].g.lastEnded

WindowOf(r) == MergedOptions(objs[r].options).doubleClickDelay

\* The start at hand yields exactly one DoubleClick of listener r, carrying
\* the distance d between the two starts and the first tap's position
OneDoubleClick(r, d) ==
  /\ Cardinality(Emitted(out', r, "doubleclick")) = 1
  /\ \A i \in Emitted(out', r, "doubleclick") :
       /\ out'[i].data.interval = d
       /\ out'[i].data.startX = objs[r].g.lastX
       /\ out'[i].data.startY = objs[r].g.lastY

\* C5 as stated: two consecutive taps (start, end, start) whose starts are
\* d apart yield exactly one DoubleClick with interval = d and the first
\* tap's position when d < doubleClickDelay, none when d >= doubleClickDelay,
\* and every DoubleClick has interval < doubleClickDelay.
C5_AnyTwoTaps ==
  [][\A r \in Listeners("doubleclick") :
       (StartStep(r) /\ TapBefore(r)) =>
         LET d == now - objs[r].g.lastStart
         IN /\ d < WindowOf(r) => OneDoubleClick(r, d)
            /\ d >= WindowOf(r) => Emitted(out', r, "doubleclick") = {}
            /\ \A i \in Emitted(out', r, "doubleclick") :
                 out'[i].data.interval < WindowOf(r)]_vars

\* C5 amended: the same, for a pair of taps whose first tap did not itself
\* complete a DoubleClick and whose second start finds no attempt marked
\* completed; a start never yields more than one DoubleClick.
C5_DoubleClickWindow ==
  [][\A r \in Listeners("doubleclick") :
       StartStep(r) =>
         LET d == now - objs[r].g.lastStart
             fresh == /\ ~objs[r].g.lastWasDouble
                      /\ ~objs[r].state.completed
         IN /\ (TapBefore(r) /\ fresh /\ d < WindowOf(r))
                 => OneDoubleClick(r, d)
            /\ (TapBefore(r) /\ d >= WindowOf(r))
                 => Emitted(out', r, "doubleclick") = {}
            /\ ~TapBefore(r) /\ objs[r].g.lastStart = 0
                 => Emitted(out', r, "doubleclick") = {}
            /\ \A i \in Emitted(out', r, "doubleclick") :
                 out'[i].data.interval < WindowOf(r)]_vars

\* C5 witness: a second tap 100 ms or more after the first has just
\* produced a DoubleClick
C5_Witness ==
  \E r \in Listeners("doubleclick") :
    \E i \in Emitted(out, r, "doubleclick") :
      /\ op.kind = "start"
      /\ out[i].data.interval >= Step
      /\ out[i].data.startX # op.pos[1]

\* The directions a displacement points in (either axis on a tie)
Toward(dx, dy) ==
  {d \in {"right", "left", "down", "up"} :
     \/ d = "right" /\ dx > 0 /\ Abs(dx) >= Abs(dy)
     \/ d = "left"  /\ dx < 0 /\ Abs(dx) >= Abs(dy)
     \/ d = "down"  /\ dy > 0 /\ Abs(dy) >= Abs(dx)
     \/ d = "up"    /\ dy < 0 /\ Abs(dy) >= Abs(dx)}

\* The last step was the raw end of the stream that owns the attempt of r
AttemptEnded(r) ==
  /\ op.kind = "end"
  /\ objs[r].g.ended /\ ~objs[r].g.open
  /\ objs[r].g.owner = op.pid
  /\ objs[r].g.endTime = now

\* C6: a stream that starts at p and ends at q with |q - p| >= swipeThreshold
\* within swipeTimeout yields exactly one Swipe whose distance is |q - p| and
\* whose direction is that of q - p; ending after swipeTimeout yields none.
C6_SwipeDisplacement ==
  \A r \in Listeners("swipe") :
    AttemptEnded(r) =>
      LET g == objs[r].g
          mo == MergedOptions(objs[r].options)
          dx == g.endX - g.startX
          dy == g.endY - g.startY
          d2 == dx * dx + dy * dy
          T == g.endTime - g.startTime
          sw == Emitted(out, r, "swipe")
      IN /\ (d2 >= mo.swipeThreshold * mo.swipeThreshold
               /\ T <= mo.swipeTimeout)
              => /\ Cardinality(sw) = 1
                 /\ \A i \in sw :
                      /\ out[i].data.distance * out[i].data.distance = d2
                      /\ out[i].data.direction \in Toward(dx, dy)
         /\ T > mo.swipeTimeout => sw = {}

\* min(max(total, min), max), and "outside [min, max]"
Clamp(total, range) == Min(Max(total, range[1]), range[2])
Outside(total, range) == total < range[1] \/ total > range[2]

\* The bounds rule on one axis of a Drag event
AxisRule(total, range, constrained, flag) ==
  IF range = <<>> THEN constrained = total /\ ~flag
  ELSE constrained = Clamp(total, range) /\ (flag <=> Outside(total, range))

OwnerOf(o) ==
  CASE o.eventType \in {"longclick", "doubleclick"} -> o.state.currentPointerId
    [] o.eventType \in {"swipe", "fling"} -> o.state.pointerId
    [] OTHER -> o.state.capturedPointer

GestureListeners(types) ==
  {r \in 1..Len(objs) : objs[r].eventType \in types /\ Registered(r)}

\* C8: when the cancel of the stream that owns an attempt in progress is
\* handled by a longclick, doubleclick, swipe, fling or drag listener with
\* pointer capture enabled and supported, the listener releases the capture
\* it requested at the start.
C8_CancelReleasesCapture ==
  [][\A r \in GestureListeners({"longclick", "doubleclick", "swipe", "fling",
                                "drag"}) :
       ( /\ op'.kind = "cancel" /\ op'.element = objs[r].element
         /\ objs[r].state.active /\ OwnerOf(objs[r]) = op'.pid
         /\ objs[r].state.usePointerCapture /\ PointerCaptureSupported )
       => \E i \in 1..Len(capLog') :
            /\ capLog'[i].call = "release" /\ capLog'[i].ref = r
            /\ capLog'[i].pid = op'.pid]_vars

\* The state a new listener like r has after the start of the last step
FreshAfterStart(r) ==
  LET o == objs[r]
      W0 == [World EXCEPT
               !.objs[r].state = InitialState(o.eventType,
                                              MergedOptions(o.options)),
               !.objs[r].g = InitialGhost(o.eventType)]
      e == [element |-> o.element, type |-> "pointerdown", ref |-> r,
            handler |-> "start"]
      f == RunHandler(W0, e, Event(op.pid, op.pos)).objs[r].state
  IN IF o.eventType = "drag"
     THEN [f EXCEPT !.cumulativeX = o.state.cumulativeX,
                    !.cumulativeY = o.state.cumulativeY]
     ELSE f

\* The last step was the first start handed to r since it handled a cancel
StartAfterCancel(r) ==
  /\ op.kind = "start" /\ op.element = objs[r].element
  /\ objs[r].g.afterCancel
  /\ CASE objs[r].eventType = "longclick" ->
            objs[r].g.owner = op.pid /\ objs[r].g.start = now
       [] objs[r].eventType = "doubleclick" ->
            objs[r].g.lastPid = op.pid /\ objs[r].g.lastStart = now
       [] OTHER ->
            objs[r].g.owner = op.pid /\ objs[r].g.startTime = now

\* C9: after a longclick, doubleclick, swipe, fling or drag listener has
\* handled the cancel of the owning stream, the next start is accepted as a
\* fresh attempt (the listener is in the state a new listener would be in
\* after that start, emitting what a new listener would emit) and is then
\* recognised as a first attempt would be: held for longClickDelay, it
\* yields LongClick.
C9_CancelReturnsToIdle ==
  /\ \A r \in GestureListeners({"longclick", "doubleclick", "swipe", "fling",
                                "drag"}) :
       StartAfterCancel(r) =>
         /\ objs[r].state = FreshAfterStart(r)
         /\ \A i \in 1..Len(out) : out[i].ref # r
  /\ \A r \in Listeners("longclick") :
       (objs[r].g.afterCancel /\ HeldThrough(r)) =>
         /\ objs[r].g.fired = 1
         /\ objs[r].g.firedAt = objs[r].g.start + DelayOf(r)

\* What identifies the attempt in progress on a swipe, fling or drag listener
AttemptOf(o) ==
  CASE o.eventType = "swipe" ->
         << o.state.pointerId, o.state.startX, o.state.startY,
            o.state.startTime >>
    [] o.eventType = "fling" -> << o.state.pointerId, o.state.points >>
    [] OTHER ->
         << o.state.capturedPointer, o.state.startX, o.state.startY >>

\* C10: while an attempt owned by pointer A is in progress on a swipe, fling
\* or drag listener, a start from another pointer B is ignored: the owner,
\* the recorded start position and time and the sample window stay A's.
C10_SingleOwner ==
  [][\A r \in GestureListeners({"swipe", "fling", "drag"}) :
       ( /\ StartStep(r)
         /\ objs[r].state.active
         /\ OwnerOf(objs[r]) # NoPointer
         /\ OwnerOf(objs[r]) # op'.pid )
       => AttemptOf(objs'[r]) = AttemptOf(objs[r])]_vars

\* C11: while a longclick listener is armed or triggered for pointer A, a
\* start from another pointer B is ignored: the owner stays A and the arm
\* timer is neither restarted nor replaced.
C11_LongClickTieBreak ==
  [][\A r \in Listeners("longclick") :
       ( /\ StartStep(r)
         /\ objs[r].state.active
         /\ objs[r].state.currentPointerId # NoPointer
         /\ objs[r].state.currentPointerId # op'.pid )
       => /\ objs'[r].state.currentPointerId = objs[r].state.currentPointerId
          /\ objs'[r].state.timerId = objs[r].state.timerId
          /\ timers' = timers]_vars

\* The timer whose callback the next timer step runs
Firing == timers[CHOOSE i \in Due : \A j \in Due : i <= j]

\* C12: after removeEventListener(id) no timer that the registration
\* scheduled (the arm timer, the grace and reset timers of end and cancel)
\* fires against its state: every timer callback that runs belongs to a
\* registered listener.
C12_TeardownTimers ==
  [][(op'.kind = "timer" /\ Due # {}) => Registered(Firing.lid)]_vars

\* C13: when removeEventListener removes a longclick, doubleclick, swipe,
\* fling, dragstart or drag registration that requested pointer capture for
\* a stream that has not ended yet, it releases that capture on the element.
C13_TeardownReleasesCapture ==
  [][\A r \in GestureListeners({"longclick", "doubleclick", "swipe", "fling",
                                "dragstart", "drag"}) :
       ( /\ op'.kind = "remove" /\ op'.id = IdOf(r)
         /\ objs[r].state.active /\ OwnerOf(objs[r]) # NoPointer
         /\ <<OwnerOf(objs[r]), objs[r].element>> \in down
         /\ objs[r].state.usePointerCapture /\ PointerCaptureSupported )
       => \E i \in 1..Len(capLog') :
            /\ capLog'[i].call = "release"
            /\ capLog'[i].element = objs[r].element
            /\ capLog'[i].pid = OwnerOf(objs[r])]_vars

\* The samples a fling listener should retain for pointer p: the last
\* MAX_VELOCITY_POINTS samples of the pointer's trail
TrailOf(r, p) ==
  LET Mine(e) == e.p = p
  IN SelectSeq(objs[r].g.trail, Mine)

Retained(r, p) ==
  LET t == TrailOf(r, p)
  IN IF Len(t) <= 5 THEN t ELSE SubSeq(t, Len(t) - 4, Len(t))

\* The speed of displacement (dx, dy) covered in ms milliseconds is at least
\* v px/s (displacements along one axis, whose length is exact)
FastEnough(dx, dy, ms, v) == Sqrt(dx * dx + dy * dy) * 1000 >= v * ms

\* C14: on the end of the stream a fling listener tracks, Fling is emitted
\* exactly when the speed from the oldest to the newest of the (at most 5)
\* most recent samples of the stream is >= flingMinVelocity; one Fling at
\* most, and no Fling on any other step.
C14_FlingThreshold ==
  [][\A r \in Listeners("fling") :
       LET flings == Emitted(out', r, "fling")
           p == op'.pid
           w == Retained(r, p)
           dx == w[Len(w)].x - w[1].x
           dy == w[Len(w)].y - w[1].y
           ms == w[Len(w)].timestamp - w[1].timestamp
           v == MergedOptions(objs[r].options).flingMinVelocity
           tracked == /\ op'.kind = "end" /\ op'.element = objs[r].element
                      /\ objs[r].state.active /\ objs[r].state.pointerId = p
       IN /\ Cardinality(flings) <= 1
          /\ flings # {} => tracked
          /\ tracked =>
               (flings # {} <=> /\ Len(w) >= 2 /\ ms > 0
                                /\ FastEnough(dx, dy, ms, v))]_vars

\* C14 witness: a Fling has just been emitted for a stream whose speed is
\* exactly flingMinVelocity (100 px in 100 ms, threshold 1000 px/s)
C14_Witness ==
  \E r \in Listeners("fling") :
    \E i \in Emitted(out, r, "fling") :
      /\ op.kind = "end"
      /\ MergedOptions(objs[r].options).flingMinVelocity = 1000
      /\ out[i].data.velocityX = <<100 * 1000, 100>>
      /\ out[i].data.velocityY[1] = 0

\* C15: the direction of every emitted Swipe is horizontal (left or right)
\* exactly when |deltaX| >= |deltaY|; in particular horizontal on a tie.
C15_SwipeDirectionTie ==
  \A i \in 1..Len(out) :
    out[i].type = "swipe" =>
      ( out[i].data.direction \in {"left", "right"}
          <=> Abs(out[i].data.deltaX) >= Abs(out[i].data.deltaY) )

\* The next step hands the raw end of the stream that owns its session to
\* drag listener r
SessionEnds(r) ==
  /\ op'.kind = "end" /\ op'.element = objs[r].element
  /\ objs[r].state.active /\ objs[r].state.capturedPointer = op'.pid

\* Offset v brought into the range of an axis (any v without a range)
Within(v, range) == IF range = <<>> THEN v ELSE Clamp(v, range)

\* The DragEnd events of a step that carry a session (those a drag
\* listener's end handler delivers)
SessionEnd(o) ==
  {i \in 1..Len(o) : o[i].type = "dragend"
                       /\ "currentDeltaX" \in DOMAIN o[i].data}

C17_DragCancelKeepsOffset ==
  [][\A r \in Listeners("drag") :
       /\ ( /\ op'.kind = "cancel" /\ op'.element = objs[r].element
            /\ objs[r].state.active
            /\ objs[r].state.capturedPointer = op'.pid )
          => /\ \A i \in 1..Len(out') : out'[i].type \notin {"drag", "dragend"}
             /\ ~objs'[r].state.active
             /\ objs'[r].state.capturedPointer = NoPointer
       /\ ~SessionEnds(r)
          => /\ objs'[r].state.cumulativeX = objs[r].state.cumulativeX
             /\ objs'[r].state.cumulativeY = objs[r].state.cumulativeY]_vars

\* C17 witness: a second session that had moved has just been cancelled,
\* with the offset of the first session kept
C17_Witness ==
  \E r \in Listeners("drag") :
    /\ op.kind = "cancel"
    /\ objs[r].g.cancelled /\ ~objs[r].state.active
    /\ objs[r].state.cumulativeX # 0
    /\ objs[r].state.currentDeltaX # 0

\* The last start listener r was handed did not complete a DoubleClick (it
\* is a first tap), and its stream was cancelled, not ended
CancelledTapBefore(r) ==
  /\ objs[r].g.lastStart > 0 /\ objs[r].g.lastCancelled
  /\ ~objs[r].g.lastWasDouble

\* No step that hands a cancel to the element changes the recorded
\* last-tap time of doubleclick listener r
CancelKeepsLastTap(r) ==
  (op'.kind = "cancel" /\ op'.element = objs[r].element)
    => objs'[r].state.lastTapTime = objs[r].state.lastTapTime

\* C18 as stated: when the first tap's stream was cancelled and a second
\* start arrives less than doubleClickDelay after the first tap's start, a
\* DoubleClick is emitted; cancel leaves the last-tap time unchanged.
C18_AnyCancelledTap ==
  [][\A r \in Listeners("doubleclick") :
       /\ ( /\ StartStep(r) /\ CancelledTapBefore(r)
            /\ now - objs[r].g.lastStart < WindowOf(r) )
          => Emitted(out', r, "doubleclick") # {}
       /\ CancelKeepsLastTap(r)]_vars

\* C18 amended: the same, when no attempt is marked completed as the
\* second start arrives; the DoubleClick carries the distance between the
\* two starts and the first tap's position.
C18_DoubleClickSurvivesCancel ==
  [][\A r \in Listeners("doubleclick") :
       /\ ( /\ StartStep(r) /\ CancelledTapBefore(r)
            /\ ~objs[r].state.completed
            /\ now - objs[r].g.lastStart < WindowOf(r) )
          => OneDoubleClick(r, now - objs[r].g.lastStart)
       /\ CancelKeepsLastTap(r)]_vars

\* C18 witness: a start 100 ms or more after the start of a tap that was
\* cancelled has just produced a DoubleClick
C18_Witness ==
  \E r \in Listeners("doubleclick") :
    \E i \in Emitted(out, r, "doubleclick") :
      /\ op.kind = "start"
      /\ objs[r].g.afterCancel
      /\ out[i].data.interval >= Step

\* The native event a raw step delivers
NativeOf(kind) ==
  CASE kind = "start" -> "pointerdown"
    [] kind = "move" -> "pointermove"
    [] kind = "end" -> "pointerup"
    [] OTHER -> "pointercancel"

\* The gesture state listener r has after the raw event of the next step
\* when only its own handlers run
AloneAfter(r) ==
  LET Own(e) == e.ref = r
      own == SelectSeq(Subscribed(objs[r].element, NativeOf(op'.kind)), Own)
  IN Dispatch(World, own, Event(op'.pid, op'.pos)).objs[r].state

\* Listener a has a peer: another registration of its gesture type
Peers(a) == {b \in Listeners(objs[a].eventType) : b # a}

\* C19: for two registrations of one gesture type (on different elements,
\* or on one element with different callbacks), the events and timers of
\* one leave the gesture state of the other as it is: a raw event on
\* another element and a timer of another listener change nothing, and a
\* raw event on the shared element changes the state exactly as the
\* listener's own handlers change it.
C19_ListenerIndependence ==
  [][\A a \in GestureListeners({"longclick", "doubleclick", "swipe", "fling",
                                "drag"}) :
       Peers(a) # {} =>
         /\ ( /\ op'.kind \in {"start", "move", "end", "cancel"}
              /\ op'.element # objs[a].element )
            => objs'[a].state = objs[a].state
         /\ ( /\ op'.kind \in {"start", "move", "end", "cancel"}
              /\ op'.element = objs[a].element )
            => objs'[a].state = AloneAfter(a)
         /\ (op'.kind = "timer" /\ Due # {} /\ Firing.lid # a)
            => objs'[a].state = objs[a].state]_vars

\* C19 witness: of two listeners of one type, one is in the middle of an
\* attempt of one stream while its peer has just handled the start of
\* another stream
C19_Witness ==
  \E a \in GestureListeners({"longclick", "drag"}) :
    \E b \in Peers(a) :
      /\ op.kind = "start"
      /\ objs[a].state.active /\ objs[b].state.active
      /\ OwnerOf(objs[a]) # OwnerOf(objs[b])
      /\ OwnerOf(objs[b]) = op.pid

\* The calls of the last step that set a capture
CaptureRequests == {k \in 1..Len(capLog) : capLog[k].call = "set"}

\* C20: no two listeners claim capture of one stream identity: once a
\* listener has captured an identity, the request of another listener for
\* that identity is a no-op that never reaches the element, and only the
\* listener that requested a capture releases it.
C20_CaptureExclusivity ==
  \A i, j \in CaptureRequests :
    (i < j /\ capLog[i].pid = capLog[j].pid) => capLog[i].ref = capLog[j].ref

\* The world with every listener's usePointerCapture switched off and no
\* capture held
WithoutCapture(W) ==
  [W EXCEPT !.captured = {},
            !.objs = [i \in 1..Len(W.objs) |->
                        IF "usePointerCapture" \in DOMAIN W.objs[i].state
                        THEN [W.objs[i] EXCEPT !.state.usePointerCapture = FALSE]
                        ELSE W.objs[i]]]

\* The gesture states of a heap, the choice of capture left aside
GestureStates(os) == WithoutCapture([objs |-> os, captured |-> {}]).objs

\* The next step did to the callbacks, the gesture states and the timers
\* what world W says
SameGestures(W) ==
  /\ out' = W.out
  /\ timers' = W.timers
  /\ \A r \in 1..Len(objs) :
       GestureStates(objs')[r].state = GestureStates(W.objs)[r].state

\* C21: capture is only an enhancement: a raw event or timer handled with
\* capture working, unsupported, disabled by usePointerCapture=false or
\* throwing on every call emits the gesture events, leaves the gesture state
\* and sets the timers that the same step without capture does, so the same
\* raw events give the same gesture events in all four cases; a throwing
\* capture call does not leave the handler.
C21_CaptureIsEnhancement ==
  [][/\ op'.kind \in {"start", "move", "end"}
        => SameGestures(Dispatch(WithoutCapture(World),
                                 Subscribed(op'.element, NativeOf(op'.kind)),
                                 Event(op'.pid, op'.pos)))
     /\ op'.kind = "cancel"
        => \E t \in {"pointercancel", "pointerleave"} :
             SameGestures(Dispatch(WithoutCapture(World),
                                   Subscribed(op'.element, t),
                                   Event(op'.pid, op'.pos)))
     /\ (op'.kind = "timer" /\ Due # {})
        => SameGestures(RunTimer(WithoutCapture(
                                   [World EXCEPT !.timers =
                                      RemoveFirst(@, Firing)]), Firing))]_vars

\* C21 witness: on a platform whose capture calls throw, a listener that
\* asks for capture has made a capture call and emitted a gesture event in
\* one step
C21_Witness ==
  /\ CaptureThrows
  /\ capLog # <<>>
  /\ out # <<>>
  /\ \E k \in 1..Len(capLog) : objs[capLog[k].ref].state.usePointerCapture

\* The Rotate events of the last step that listener r's touches caused
TouchRotations(r) ==
  {k \in 1..Len(out) : out[k].ref = r /\ out[k].type = "rotate"
                       /\ out[k].data.source = "touch"}

\* C22: a Rotate event of a two-finger move reports the angle of the line
\* between the fingers and, as its delta, the signed shortest way round from
\* the last reported angle (the angle of the touchstart before any report)
\* to it: the delta differs from the plain difference by whole turns only,
\* is at least 1 degree and at most 180 degrees in magnitude, and the total
\* rotation grows by exactly the delta; a move that reports nothing leaves
\* the last reported angle and the total as they are.
C22_RotateWrapAround ==
  [][\A r \in Listeners("rotate") :
       op'.kind = "touchmove" /\ op'.element = objs[r].element =>
         LET s == objs[r].state
             t == objs'[r].state
             emitted == {k \in 1..Len(out') : out'[k].ref = r}
         IN /\ Cardinality(emitted) <= 1
            /\ \A k \in emitted :
                 LET d == out'[k].data
                 IN /\ d.source = "touch"
                    /\ d.angle = Atan2(op'.pos[2], op'.pos[1])
                    /\ (d.angle - s.lastAngle - d.deltaAngle) % 360000 = 0
                    /\ Abs(d.deltaAngle) >= 1000
                    /\ Abs(d.deltaAngle) <= 180000
                    /\ d.rotation = s.totalRotation + d.deltaAngle
                    /\ t.totalRotation = d.rotation
                    /\ t.lastAngle = d.angle
            /\ emitted = {} => /\ t.lastAngle = s.lastAngle
                               /\ t.totalRotation = s.totalRotation]_vars

\* C22 witness: the fingers cross the half turn from 178.854 to -178.854
\* degrees and the move reports 2.292 degrees
C22_Witness ==
  \E r \in Listeners("rotate") :
    \E k \in TouchRotations(r) :
      /\ out[k].data.angle = -178854
      /\ out[k].data.deltaAngle = 2292

\* C23: after any sequence of wheel ticks in either direction and pen
\* rotation events, the angle of every Rotate event of the wheel and of the
\* pen is at least 0 and below 360.
C23_RotateAngleNormalised ==
  \A k \in 1..Len(out) :
    (out[k].type = "rotate" /\ out[k].data.source \in {"mouse", "pen"})
      => InCircle(out[k].data.angle)

\* After wheel ticks of the default step and pen events alone, the angles
\* of the wheel and of the pen are within the circle
WholeDegreesStayInCircle ==
  (\A r \in 1..Len(objs) : objs[r].options.rotateStepDeg = NumZero)
    => C23_RotateAngleNormalised

\* minScale <= x <= maxScale
WithinScaleBounds(x) ==
  /\ x.kind = "num"
  /\ ~RatLess(x, minScale)
  /\ ~RatLess(maxScale, x)

\* C24: after any sequence of wheel ticks and two-finger pinch moves, the
\* scale of every PinchZoom event is within [minScale, maxScale] (0.1 and
\* 10), and so are the scales accumulated in the listener state.
C24_PinchZoomScaleBounds ==
  /\ \A k \in 1..Len(out) :
       out[k].type = "pinchzoom" => WithinScaleBounds(out[k].data.scale)
  /\ \A r \in Listeners("pinchzoom") :
       /\ WithinScaleBounds(objs[r].state.scale)
       /\ WithinScaleBounds(objs[r].state.totalScale)

\* Every scale that is a number is within the bounds
NumericScalesWithinBounds ==
  LET Fine(x) == x.kind = "num" => WithinScaleBounds(x)
  IN /\ \A k \in 1..Len(out) :
          out[k].type = "pinchzoom" => Fine(out[k].data.scale)
     /\ \A r \in Listeners("pinchzoom") :
          Fine(objs[r].state.scale) /\ Fine(objs[r].state.totalScale)

\* C30: the stream identity of the event normalized from a touch event is
\* the platform identifier of the touch it was read from (the first touch
\* of the event), whatever the identifier, 0 included, so touches with
\* different identifiers never get one identity.
C30_NormalizedTouchIdentity ==
  op.kind \in {"touchstart", "touchmove", "touchend"} =>
    \A k \in 1..Len(out) : out[k].pointerId = op.pid

\* A touch with an identifier other than 0 keeps it as its identity
NonZeroTouchKeepsIdentity ==
  (op.kind \in {"touchstart", "touchmove", "touchend"} /\ op.pid # 0) =>
    \A k \in 1..Len(out) : out[k].pointerId = op.pid

-----------------------------------------------------------------------------
(* The public API: registration and teardown *)

\* The types the specification lists as supported
SupportedTypes ==
  { "start", "move", "end", "cancel", "longclick", "doubleclick", "swipe",
    "fling", "dragstart", "drag", "dragend", "gotcapture", "lostcapture",
    "rotate", "pinchzoom" }

\* The call that led to op' lacks an argument or names an unsupported type
BadRegistration ==
  /\ op'.kind = "add"
  /\ \/ op'.element = Missing
     \/ op'.type = Missing
     \/ op'.callback = Missing
     \/ op'.type \notin SupportedTypes

\* C25: addEventListener with a missing element, a missing type, a missing
\* callback or a type outside the supported set throws, and the listener
\* count, the registry contents (the Map and the listenerInfo objects it
\* holds) and the native subscriptions are what they were before the call.
C25_RegistrationFailsFast ==
  [][ BadRegistration =>
        /\ op'.threw
        /\ Len(eventListeners') = Len(eventListeners)
        /\ eventListeners' = eventListeners
        /\ objs' = objs
        /\ dom' = dom
        /\ listenerCounter' = listenerCounter ]_vars

\* A call without an element has thrown while a listener is registered
C25_Witness ==
  /\ op.kind = "add" /\ op.threw
  /\ op.element = Missing /\ op.type = "longclick" /\ op.callback = "f"
  /\ Len(eventListeners) >= 1 /\ dom # <<>>

\* The other three ways of failing
UnsupportedTypeThrew ==
  op.kind = "add" /\ op.threw /\ op.element = "e1" /\ op.type = "hover"
  /\ Len(eventListeners) >= 1
MissingTypeThrew ==
  op.kind = "add" /\ op.threw /\ op.element = "e1" /\ op.type = Missing
  /\ op.callback = "f"
MissingCallbackThrew ==
  op.kind = "add" /\ op.threw /\ op.element = "e1" /\ op.type = "longclick"
  /\ op.callback = Missing

\* C26: removeEventListener with an id that is not registered when it is
\* called (never issued, or removed before by removeEventListener,
\* removeAllEventListeners or dispose) returns false, does not throw, and
\* leaves the registry and the native subscriptions as they were; with a
\* registered id it returns true and the id is registered no longer.
C26_RemoveUnknownId ==
  [][ op'.kind = "remove" =>
        IF op'.id \notin RegisteredIds(eventListeners)
        THEN /\ op'.ret = FALSE /\ ~op'.threw
             /\ eventListeners' = eventListeners
             /\ objs' = objs
             /\ dom' = dom
        ELSE /\ op'.ret = TRUE /\ ~op'.threw
             /\ op'.id \notin RegisteredIds(eventListeners') ]_vars

\* The first id issued was removed, and removing it again returned false
\* while the second registration stayed
C26_Witness ==
  /\ op.kind = "remove" /\ op.ret = FALSE /\ op.id = <<1, 0>>
  /\ Len(objs) = 2 /\ listenerCounter = 2
  /\ RegisteredIds(eventListeners) = {<<1, 1>>}
  /\ dom # <<>>

\* Removing an id that was never issued, and one that dispose removed
NeverIssuedIdNotFound ==
  op.kind = "remove" /\ op.ret = FALSE /\ op.id = <<1, 1>>
  /\ Len(objs) = 1 /\ listenerCounter = 1 /\ Len(eventListeners) = 1
DisposedIdNotFound ==
  op.kind = "remove" /\ op.ret = FALSE /\ op.id = <<1, 1>>
  /\ Len(objs) = 2 /\ listenerCounter = 0
RegisteredIdRemoved ==
  op.kind = "remove" /\ op.ret = TRUE /\ Len(eventListeners) = 1

\* The Map entries whose target is (is not) element e, in Map order
EntriesOn(regs, os, e) ==
  LET On(x) == os[x.ref].element = e
  IN SelectSeq(regs, On)
EntriesOff(regs, os, e) ==
  LET Off(x) == os[x.ref].element # e
  IN SelectSeq(regs, Off)

\* The native subscriptions of the elements other than e
NativeOff(d, e) ==
  LET Off(x) == x.element # e
  IN SelectSeq(d, Off)

\* C27: removeAllEventListeners(element) removes every registration whose
\* target is the element and returns their number; afterwards no
\* registration targets the element, and every registration on another
\* element keeps its id, its listenerInfo (state included) and its native
\* subscriptions.
C27_RemoveAllOnElement ==
  [][ op'.kind = "removeAll" =>
        LET e == op'.element
            others == EntriesOff(eventListeners, objs, e)
        IN /\ op'.ret = Len(EntriesOn(eventListeners, objs, e))
           /\ EntriesOn(eventListeners', objs', e) = <<>>
           /\ eventListeners' = others
           /\ \A i \in 1..Len(others) :
                objs'[others[i].ref] = objs[others[i].ref]
           /\ NativeOff(dom', e) = NativeOff(dom, e)
           /\ \A x \in 1..Len(dom') : dom'[x].element # e ]_vars

\* The listener on e1 was removed while the longclick listener on e2 was in
\* the middle of a press, its timer pending
C27_Witness ==
  /\ op.kind = "removeAll" /\ op.element = "e1" /\ op.ret = 1
  /\ Len(eventListeners) = 1
  /\ LET o == objs[eventListeners[1].ref]
     IN /\ o.element = "e2" /\ o.eventType = "longclick"
        /\ o.state.timerId # NoTimer
  /\ timers # <<>>

\* Both listeners of an element were removed by one call
TwoRemovedAtOnce ==
  op.kind = "removeAll" /\ op.ret = 2 /\ eventListeners = <<>>

\* The call that led to op' is a registration with all its arguments and a
\* supported type
GoodRegistration == op'.kind = "add" /\ ~BadRegistration

DisposedTwo ==
  RemoveThrows = {} /\ op.kind = "dispose" /\ Len(objs) = 2
  /\ listenerCounter = 0 /\ events >= 1 /\ timers = <<>>

\* A registration was made after dispose() and a press reached it
RegisteredAfterDispose ==
  /\ RemoveThrows = {} /\ Len(objs) = 2 /\ listenerCounter = 1
  /\ Len(eventListeners) = 1 /\ op.kind = "start"
  /\ objs[2].eventType = "start" /\ out # <<>>

\* Where removing a pointerup subscription throws, that subscription
\* outlives dispose()
ThrowingRemovalLeavesSubscription ==
  (RemoveThrows # {} /\ op.kind = "dispose") =>
    \A x \in 1..Len(dom) : dom[x].type \in RemoveThrows

\* The native subscriptions of listenerInfo r
NativeOfListener(d, r) ==
  LET Own(x) == x.ref = r
  IN SelectSeq(d, Own)

\* C29: when removing one native subscription throws during
\* removeEventListener, the other native subscriptions of the registration
\* are removed all the same (those recorded after the failing one too),
\* the registration leaves the registry, the call does not throw, and the
\* listener count is one less than before.
C29_TeardownToleratesFailures ==
  [][ ( /\ RemoveThrows # {}
        /\ op'.kind = "remove"
        /\ op'.id \in RegisteredIds(eventListeners) ) =>
        LET r == eventListeners[RefOf(eventListeners, op'.id)].ref
            left == NativeOfListener(dom', r)
        IN /\ ~op'.threw
           /\ \A x \in 1..Len(left) : left[x].type \in RemoveThrows
           /\ op'.id \notin RegisteredIds(eventListeners')
           /\ Len(eventListeners') = Len(eventListeners) - 1 ]_vars

\* A longclick listener was removed where removing its pointerup
\* subscription throws: that subscription alone is left, and the other
\* registration is still there
C29_Witness ==
  /\ RemoveThrows = {"pointerup"}
  /\ op.kind = "remove" /\ op.ret = TRUE
  /\ Len(eventListeners) = 1
  /\ \E r \in 1..Len(objs) :
       /\ objs[r].eventType = "longclick"
       /\ ~Registered(r)
       /\ Len(NativeOfListener(dom, r)) = 1

-----------------------------------------------------------------------------
(* Emission rules of the gestures *)

\* The step is the raw end of the stream that owns the attempt of swipe
\* listener r
OwnerEnds(r) ==
  /\ op'.kind = "end"
  /\ op'.element = objs[r].element
  /\ objs[r].state.active
  /\ objs[r].state.pointerId = op'.pid

\* C31: a swipe listener emits at most one Swipe per step, and it emits one
\* exactly at the end of the owning stream when the time since the start is
\* at most swipeTimeout and the distance from the start position to the
\* tracked current position is at least swipeThreshold; the end closes the
\* attempt, so a start..end emits one Swipe at most; no other step (a move,
\* a start, a cancel, a timer) emits.
C31_SwipeEmissionRule ==
  [][\A r \in Listeners("swipe") :
       LET s == objs[r].state
           mo == MergedOptions(objs[r].options)
           dx == s.currentX - s.startX
           dy == s.currentY - s.startY
           sw == Emitted(out', r, "swipe")
       IN /\ Cardinality(sw) <= 1
          /\ sw # {} <=>
               /\ OwnerEnds(r)
               /\ now - s.startTime <= mo.swipeTimeout
               /\ dx * dx + dy * dy >= mo.swipeThreshold * mo.swipeThreshold
          /\ OwnerEnds(r) =>
               /\ ~objs'[r].state.active
               /\ objs'[r].state.pointerId = NoPointer
          /\ op'.kind = "move" => sw = {}]_vars

\* A Swipe was emitted for a displacement equal to the threshold after a
\* time equal to the timeout
C31_Witness ==
  /\ op.kind = "end"
  /\ \E i \in 1..Len(out) :
       /\ out[i].type = "swipe"
       /\ out[i].data.distance = 100
       /\ out[i].data.duration = 300

\* The stream ended with nothing emitted: too short a displacement in time,
\* and far enough too late
TooShortNoSwipe ==
  /\ op.kind = "end" /\ out = <<>>
  /\ \E r \in Listeners("swipe") :
       /\ objs[r].state.currentX - objs[r].state.startX = 60
       /\ now - objs[r].state.startTime = 100
       /\ ~objs[r].state.active /\ ~objs[r].g.open /\ objs[r].g.ended
TooLateNoSwipe ==
  /\ op.kind = "end" /\ out = <<>>
  /\ \E r \in Listeners("swipe") :
       /\ objs[r].state.currentX - objs[r].state.startX = 100
       /\ now - objs[r].state.startTime = 400
       /\ ~objs[r].state.active /\ ~objs[r].g.open /\ objs[r].g.ended

\* C32: a DoubleClick is emitted only by a start of the stream identity
\* that made the recorded first tap; a start of another identity inside
\* the window does not complete the attempt.
C32_DoubleClickSameIdentity ==
  [][\A r \in Listeners("doubleclick") :
       Emitted(out', r, "doubleclick") # {} =>
         /\ op'.kind = "start"
         /\ objs[r].g.lastPid = op'.pid]_vars

\* A DoubleClick completed by the identity of the first tap
SameIdentityDoubleClick ==
  /\ op.kind = "start" /\ op.pid = 1 /\ events = 3
  /\ \E i \in 1..Len(out) : out[i].type = "doubleclick"

\* C33: every stream start on an element delivers exactly one DragStart to
\* the callback of each dragstart registration on the element: the first
\* press and every later one, with or without drag registrations beside
\* it.
C33_DragStartOncePerStart ==
  \A r \in Listeners("dragstart") :
    (op.kind = "start" /\ op.element = objs[r].element) =>
      Cardinality(Emitted(out, r, "dragstart")) = 1

\* The first press on an element with a dragstart registration alone
\* delivers one DragStart
FirstPressAloneDelivers ==
  \A r \in Listeners("dragstart") :
    ( /\ op.kind = "start" /\ op.element = objs[r].element
      /\ events = 1
      /\ Listeners("drag") = {} ) =>
      Cardinality(Emitted(out, r, "dragstart")) = 1

\* A dragstart registration alone is never silent on the second press of
\* an identity (violated: the first press leaves the registration active)
NoSilentSecondPress ==
  \A r \in Listeners("dragstart") :
    ~ ( /\ op.kind = "start" /\ op.element = objs[r].element
        /\ events = 3 /\ Len(objs) = 1
        /\ Emitted(out, r, "dragstart") = {} )

\* The step is a move of the stream that drag listener r is dragging with
OwnerMoves(r) ==
  /\ op'.kind = "move"
  /\ op'.element = objs[r].element
  /\ objs[r].state.active
  /\ objs[r].state.capturedPointer = op'.pid

\* C34: while a drag listener is dragging, every move of the owning stream
\* produces exactly one Drag event, whose session delta is the position of
\* the move minus the start position of the session, however soon after
\* the previous move (or the start) it arrives.
C34_EveryMoveReported ==
  [][\A r \in Listeners("drag") :
       OwnerMoves(r) =>
         LET dr == Emitted(out', r, "drag")
         IN /\ Cardinality(dr) = 1
            /\ \A i \in dr :
                 /\ out'[i].data.currentDeltaX
                      = op'.pos[1] - objs[r].state.startX
                 /\ out'[i].data.currentDeltaY
                      = op'.pos[2] - objs[r].state.startY]_vars

\* A move that arrives throttleMs or more after the last one is reported,
\* with the session delta of the claim
SpacedMovesReported ==
  [][\A r \in Listeners("drag") :
       ( /\ OwnerMoves(r)
         /\ now - objs[r].state.lastMoveTime
              >= MergedOptions(objs[r].options).throttleMs ) =>
         LET dr == Emitted(out', r, "drag")
         IN /\ Cardinality(dr) = 1
            /\ \A i \in dr :
                 /\ out'[i].data.currentDeltaX
                      = op'.pos[1] - objs[r].state.startX
                 /\ out'[i].data.currentDeltaY
                      = op'.pos[2] - objs[r].state.startY]_vars

\* The device family the options of a registration let through ("any" when
\* no filter is set)
FilterOf(options) ==
  CASE options.mouseOnly -> "mouse"
    [] options.touchOnly -> "touch"
    [] options.penOnly -> "pen"
    [] OTHER -> "any"

\* C35: a basic listener (start, move, end or cancel) registered with
\* mouseOnly, touchOnly or penOnly has its callback invoked only for raw
\* events of the matching device family, and for every matching raw event
\* of its type (for cancel, the first half only).
C35_DeviceFilters ==
  \A r \in 1..Len(objs) :
    ( /\ Registered(r)
      /\ objs[r].eventType \in BasicTypes
      /\ FilterOf(objs[r].options) # "any"
      /\ op.kind \in BasicTypes
      /\ op.element = objs[r].element ) =>
      LET calls == Emitted(out, r, objs[r].eventType)
          match == PointerType(op.pid) = FilterOf(objs[r].options)
      IN /\ calls # {} => match /\ op.kind = objs[r].eventType
         /\ ( /\ match /\ op.kind = objs[r].eventType
              /\ op.kind # "cancel" ) => Cardinality(calls) = 1

\* The claim for start listeners alone
StartListenersFilter ==
  \A r \in 1..Len(objs) :
    ( /\ Registered(r)
      /\ objs[r].eventType = "start"
      /\ FilterOf(objs[r].options) # "any"
      /\ op.kind \in BasicTypes
      /\ op.element = objs[r].element ) =>
      LET calls == Emitted(out, r, "start")
          match == PointerType(op.pid) = FilterOf(objs[r].options)
      IN /\ calls # {} => match /\ op.kind = "start"
         /\ (match /\ op.kind = "start") => Cardinality(calls) = 1

\* A start listener with touchOnly was invoked for the finger
TouchStartPassed ==
  /\ op.kind = "start" /\ op.pid = 2 /\ out # <<>>
  /\ \E r \in Listeners("start") : objs[r].options.touchOnly

-----------------------------------------------------------------------------
(* Ownership and sessions over several presses *)

\* C36: while a longclick attempt is in progress (active), the recorded owner
\* is the stream whose start armed the attempt; a deferred reset left by the
\* end or cancel of an earlier press does not change the owner of a later
\* attempt.
C36_LongClickOwnerInvariant ==
  \A r \in Listeners("longclick") :
    objs[r].state.active =>
      objs[r].state.currentPointerId = objs[r].g.owner

\* the deferred resets leave triggered and completed of an attempt in
\* progress alone
GraceLeavesAttemptAlone ==
  [][\A r \in Listeners("longclick") :
       (/\ op'.kind = "timer"
        /\ op'.type \in {"longclickGrace", "longclickCancelReset"}
        /\ r \in DOMAIN objs' /\ objs[r].state.active)
       => /\ objs'[r].state.triggered = objs[r].state.triggered
          /\ objs'[r].state.completed = objs[r].state.completed]_vars

\* The start at hand is the third of three taps in quick succession: the
\* tap before it has ended and started less than doubleClickDelay ago, and
\* that tap in turn came less than doubleClickDelay after an ended tap
ThreeTaps(r) ==
  /\ StartStep(r)
  /\ objs[r].g.lastQuick
  /\ objs[r].g.lastEnded /\ ~objs[r].g.lastCancelled
  /\ now - objs[r].g.lastStart < WindowOf(r)

\* The start at hand is recorded by listener r as a first tap
RecordedAsFirstTap(r) ==
  /\ objs'[r].state.active
  /\ objs'[r].state.lastTapTime = now'
  /\ objs'[r].state.currentPointerId = op'.pid
  /\ objs'[r].state.startX = op'.pos[1]
  /\ objs'[r].state.startY = op'.pos[2]

\* C37 as stated: any three taps in quick succession yield exactly one
\* DoubleClick, emitted on the second start, and the third start is
\* recorded as a new first tap.
C37_AnyThreeTaps ==
  [][\A r \in Listeners("doubleclick") :
       ThreeTaps(r) =>
         /\ objs[r].g.lastWasDouble
         /\ Emitted(out', r, "doubleclick") = {}
         /\ RecordedAsFirstTap(r)]_vars

\* C37 amended: a start that follows a start which emitted a DoubleClick
\* never emits one, so no tap is the second tap of one DoubleClick and the
\* first tap of another; three taps in quick succession whose first tap did
\* not itself complete a DoubleClick and whose second start found no
\* attempt marked completed yield exactly one DoubleClick, emitted on the
\* second start, and the third start is recorded as a new first tap.
C37_TapInOneDoubleClick ==
  [][\A r \in Listeners("doubleclick") :
       StartStep(r) =>
         /\ objs[r].g.lastWasDouble
              => Emitted(out', r, "doubleclick") = {}
         /\ (ThreeTaps(r) /\ objs[r].g.lastFresh)
              => /\ objs[r].g.lastWasDouble
                 /\ Emitted(out', r, "doubleclick") = {}
                 /\ RecordedAsFirstTap(r)
         /\ (ThreeTaps(r) /\ objs[r].g.lastWasDouble)
              => RecordedAsFirstTap(r)]_vars

\* C37 witness: the third of three quick taps has just been recorded as a
\* first tap, the second one having emitted the DoubleClick
C37_Witness ==
  \E r \in Listeners("doubleclick") :
    /\ op.kind = "start" /\ out = <<>>
    /\ objs[r].g.lastQuick /\ ~objs[r].g.lastWasDouble
    /\ ~objs[r].g.lastFresh
    /\ objs[r].g.lastStart = now
    /\ objs[r].state.active /\ objs[r].state.lastTapTime = now
    /\ objs[r].state.completed

\* The next step hands a raw end on its element to listener r
EndStep(r) ==
  /\ op'.kind = "end"
  /\ op'.element = objs[r].element

\* The raw end at hand closes a drag session on element e: a drag listener
\* of e is in a session owned by the ending pointer
ClosesDragSession(e) ==
  \E d \in Listeners("drag") :
    /\ objs[d].element = e
    /\ objs[d].state.active
    /\ objs[d].state.capturedPointer = op'.pid

\* Listener r is the one dragend registration of an element that has drag
\* registrations
OneDragEndAmongDrags(r) ==
  /\ \A q \in Listeners("dragend") : objs[q].element = objs[r].element => q = r
  /\ \E d \in Listeners("drag") : objs[d].element = objs[r].element

\* C38: for an element with one dragend registration and one or more drag
\* registrations, the end of a drag session delivers exactly one DragEnd to
\* the dragend callback, and an end that closes no session delivers none.
C38_DragEndOncePerSession ==
  [][\A r \in Listeners("dragend") :
       (EndStep(r) /\ OneDragEndAmongDrags(r)) =>
         Cardinality(Emitted(out', r, "dragend"))
           = IF ClosesDragSession(objs[r].element) THEN 1 ELSE 0]_vars

\* what the dragend callback gets instead: one DragEnd from its own end
\* handler on every raw end, and one more from each drag listener whose
\* session the end closes
DragEndPerHandler ==
  [][\A r \in Listeners("dragend") :
       EndStep(r) =>
         Cardinality(Emitted(out', r, "dragend"))
           = 1 + Cardinality({d \in Listeners("drag") :
                                /\ objs[d].element = objs[r].element
                                /\ objs[d].state.active
                                /\ objs[d].state.capturedPointer = op'.pid})]_vars

-----------------------------------------------------------------------------
(* Callbacks that throw *)

\* The callbacks that the end handler of listener r delivers a Swipe, Fling
\* or DragEnd to at the raw end at hand
DeliveredAtEnd(r) ==
  IF ~EndStep(r) THEN {}
  ELSE IF objs[r].eventType \in {"swipe", "fling"}
  THEN {out'[i].callback : i \in Emitted(out', r, objs[r].eventType)}
  ELSE IF objs[r].eventType = "drag" /\ SessionEnds(r)
  THEN {objs[q].callback :
          q \in {q \in Listeners("dragend") :
                   objs[q].element = objs[r].element}}
  ELSE {}

\* One of them throws
ThrowsAtEnd(r) == \E c \in DeliveredAtEnd(r) : Throws(c)

\* Listener r tracks no stream
GestureIdle(os, r) ==
  /\ ~os[r].state.active
  /\ IF os[r].eventType = "drag"
     THEN os[r].state.capturedPointer = NoPointer
     ELSE os[r].state.pointerId = NoPointer

\* C39: when the callback throws while a Swipe, Fling or DragEnd is being
\* delivered at stream end, the listener's state still returns to Idle
\* (active false, owner cleared), so the next start of the same stream is a
\* new attempt.
C39_ThrowDoesNotWedge ==
  [][\A r \in GestureListeners({"swipe", "fling"}) \cup Listeners("drag") :
       ThrowsAtEnd(r) => GestureIdle(objs', r)]_vars

\* a delivery to a callback that returns leaves the listener Idle
ReturnLeavesIdle ==
  [][\A r \in GestureListeners({"swipe", "fling"}) \cup Listeners("drag") :
       (DeliveredAtEnd(r) # {} /\ ~ThrowsAtEnd(r))
         => GestureIdle(objs', r)]_vars

\* the start that follows a throwing delivery is dropped by the "already
\* tracking" test: the listener's attempt is still the one that ended
StartAfterThrowDropped ==
  /\ op.kind = "start" /\ cfg.throwing # {}
  /\ \E r \in GestureListeners({"swipe", "fling"}) :
       /\ objs[r].state.completed /\ objs[r].state.active
       /\ objs[r].state.pointerId = op.pid
       /\ objs[r].state.startTime < now

=============================================================================
